---- MODULE Spec2Model ----
(***************************************************************************)
(* Verification model of the C-minus toolchain (elijahmorg/c_minus).       *)
(*                                                                         *)
(* The module holds one group of variables per component and one           *)
(* specification per component:                                            *)
(*   SpecCycles    internal/project/project.go   detectCycles              *)
(*   SpecLineMap   internal/lsp/linemap.go       lineMapper                *)
(*   SpecTransform internal/transform            TransformFunctionBodyFull *)
(*   SpecCodegen   internal/codegen/codegen.go   GenerateModule            *)
(*   SpecCompletion internal/lsp/jsonrpc.go      cmCompletions             *)
(*   SpecLsp       internal/lsp/linemap.go       Serve                     *)
(*   SpecBuildTags internal/project/project.go   matchesBuildTags          *)
(*   SpecBuild     internal/build/build.go       compileModules            *)
(*   SpecClangdProxy internal/lsp/clangd.go      request, readLoop         *)
(*   SpecRename    internal/lsp/module_index.go  rename, prepareRename     *)
(*   SpecBuildFair internal/build/build.go       compileModules, fair      *)
(*   SpecClangdLifecycle internal/lsp/clangd.go  start, stop               *)
(*   SpecLdFlags   internal/build/build.go       collectLDFlags            *)
(*   SpecDiagnostics internal/lsp/linemap.go     refreshFile, diagnostics  *)
(*   SpecQualified internal/codegen/codegen.go   mangleTypeInSignature     *)
(*   SpecPaths     internal/paths/paths.go       generated file paths      *)
(***************************************************************************)
EXTENDS Integers, Sequences, FiniteSets, TLC

(***************************************************************************)
(* Bounds                                                                  *)
(***************************************************************************)
\* number of import paths that occur in a project (module paths and paths
\* that are imported without being a module of the project)
MaxNames == 3
\* number of lines of a generated C file
MaxGenLines == 4
\* largest original line number written in a #line directive
MaxOrigLine == 3
\* width in bits of the machine integer the model computes with (Go's int is
\* 64 bits wide; the model keeps the wrap-around at a width TLC can enumerate)
IntBits == 8
\* number of lexical elements (identifiers, literals, comments, ...) of a function body
MaxPieces == 3
MaxFiles == 2
MaxDecls == 3
MaxBufLines == 3
MaxDiskLines == 2
MaxVersion == 2
\* number of // +build lines of a file, of tags on one line, and of leading
\* '!' of a tag
MaxGroups == 2
MaxGroupTags == 2
MaxNeg == 1
\* number of modules of a project, of files of a module, and largest -j
MaxModules == 2
MaxModFiles == 2
MaxJobs == 2
\* number of request calls to clangd, and of messages clangd writes
MaxCalls == 2
MaxResponses == 3
\* number of lexical elements of the file a rename works on, and the largest
\* line and character of a request position
MaxRnPieces == 3
MaxRnLine == 3
MaxRnChar == 5
\* number of clangdProxy values one server creates (initialize requests that reach newClangdProxy)
MaxProxies == 3
\* number of files with flags, of LDFLAGS entries of one file, and of builds of one project
MaxLdFiles == 2
MaxLdFlags == 2
MaxBuilds == 2
\* number of refreshes of one .cm file
MaxRefreshes == 3
\* number of segments of an import path, and of `*` after a type in a signature
MaxSegments == 3
MaxStars == 2

(***************************************************************************)
(* Generic helpers                                                         *)
(***************************************************************************)
Range(f) == {f[i] : i \in DOMAIN f}

\* all orders in which the elements of the finite set S can be enumerated
\* (iteration order of a Go map / of a slice filled from a Go map)
Perms(S) == {q \in [1..Cardinality(S) -> S] : Range(q) = S}

(***************************************************************************)
(* State                                                                   *)
(***************************************************************************)
VARIABLES
    \* ---- project resolver, detectCycles (internal/project/project.go) ----
    Modules,     \* keys of proj.Modules: the import paths that are modules
    Imports,     \* ModuleInfo.Imports of every module (a set, validateModules de-duplicates)
    inDegree,    \* detectCycles: inDegree map (its domain is the set of keys)
    queue,       \* detectCycles: queue
    processed,   \* detectCycles: processed
    cyc_pc,      \* position inside detectCycles
    cyc_err,     \* error returned by detectCycles ("" is nil)
    \* ---- lineMapper (internal/lsp/linemap.go) ----
    cLines,      \* the generated C file read by newLineMapperFromC, a sequence of lines
    segments,    \* lineMapper.segments
    lm_pc,       \* "new": no mapper yet, "built": newLineMapperFromC returned, "queried": a lookup returned
    lm_query,    \* arguments of the last lookup
    lm_result,   \* result of the last lookup
    \* ---- body transformer (internal/transform/transform.go) ----
    bodyPieces,  \* the function body as the C lexical elements it is written from
    body,        \* the function body, a sequence of bytes (FuncDecl.Body)
    trMaps,      \* importMap, cimportMap, enumValues, globalVars, defines
    tokens,      \* result of tokenize(body)
    chunks,      \* what TransformFunctionBodyFull wrote to result, one entry per WriteString
    tr_pc,       \* "start", "tokens" (tokenize returned), "done" (the transformer returned)
    \* code generator (internal/codegen/codegen.go)
    files,          \* the parsed files of the module: a sequence of sequences of declarations
    cg_maps,        \* typeNames, enumValues, globalVars, defines of the first pass
    cg_lists,       \* the public and private declaration lists of the second pass
    publicHeader,   \* the items written to <module>.h
    internalHeader, \* the items written to <module>_internal.h
    cFilesOut,      \* the items written to each <module>_<base>.c, one entry per file written
    cg_pc,          \* the position of GenerateModule
    \* CM-native completion (internal/lsp/jsonrpc.go, symbols.go)
    cmText,      \* the editor buffer of the .cm file (s.openDocs[cmPath])
    diskFile,    \* the file at cmPath on disk: whether it exists, and its text
    cursor,      \* <<line0, char0>> of the completion request
    cmCtx,       \* the cmCompletionContext computed for the request
    cmItems,     \* the items cmCompletions returned
    cmp_pc,      \* "start", "context", "done"
    \* LSP server (internal/lsp/linemap.go from line 128, transpile.go, clangd.go)
    serve,       \* Serve: "loop", "refresh" (inside refreshFile, after the transpile),
                 \* "done" (returned nil: end of input or exit), "readError"
                 \* (returned the error of readMessage), "error" (returned the
                 \* error of a handler), "panic"
    refreshing,  \* the .cm file refreshFile is working on ("" outside refreshFile)
    clangd,      \* s.clangd: "nil", "unstarted" (start failed), "running", "stopped"
    openDocs,    \* s.openDocs: .cm file -> buffer text
    openedCDocs, \* s.openedCDocs: generated C file (named by its .cm file) -> version
    lineMaps,    \* s.lineMaps: generated C file -> cached lineMapper
    cFileDisk,   \* the generated C files on disk: file -> content
    clangdDocs,  \* the text clangd holds for each generated C file it was sent
    clangdSync,  \* per generated C file, the didOpen/didChange notifications
                 \* written to clangd so far, each with its version
    reply,       \* what the handler of the last message wrote back to the client
    lmUse,        \* the lineMapper use of the last step: by whom and for which file
    \* build tags (internal/project/project.go, matchesBuildTags)
    buildTags,   \* the build-tag matrix of a file: a sequence of OR-groups, each a sequence of tags
    buildCtx,    \* the BuildContext: OS, Arch, Release, Tags
    bt_result,   \* what matchesBuildTags returned
    bt_pc,        \* "start", "done"
    \* build (internal/build/build.go, compileModules)
    modFiles,    \* per module, per file: the object file is "missing", "older" than the C file, or "fresh"
    modFiles0,   \* modFiles when compileModules was called
    jobs,        \* Options.Jobs
    visited,     \* the modules the range loop of compileModules has passed
    task,        \* per module: "none", "running" (inside compileModule), "returned", "done"
    taskFile,    \* per module: index of the file compileModule is at
    sem,         \* number of elements in the channel sem
    invoked,     \* the files gcc was invoked for, as <<module, file index>>
    errCount,    \* number of errors sent to errChan
    bld_pc,       \* "loop" (in the range loop), "wait" (wg.Wait), "done"
    \* clangd proxy (internal/lsp/clangd.go, request and readLoop)
    nextID,      \* clangdProxy.nextID
    pending,     \* clangdProxy.pending: key -> the request call that waits on the channel
    pxCall,      \* per request call: its state ("idle", "waiting", "done", "timeout") and id
    pxChan,      \* per request call: the messages the read loop sent on its channel
    pxGot,       \* per request call: the messages the call received from its channel
    pxWire,      \* the messages clangd wrote that the read loop has not read yet
    pxSent,      \* number of messages clangd wrote
    pxLast,       \* the last message the read loop read: its id, the call it went to
                 \* (0: none), and whether a call was pending under its key
    \* rename and prepareRename (internal/lsp/module_index.go, prepare_rename.go, symbols.go)
    rnPieces,    \* the .cm file as the lexical elements it is written from
    rnText,      \* the .cm file, a sequence of bytes
    rnPos,       \* <<line, character>> of the request, 0-based
    rnNew,       \* params.NewName
    rnReply,     \* what the handler answered
    rn_pc,        \* "start", "renamed", "prepared"
    \* clangd process lifecycle (internal/lsp/linemap.go handleRequest, clangd.go start/stop)
    lcProxies,   \* every clangdProxy created so far: its cmd field, its child process, its read loop
    lcCur,       \* s.clangd: index into lcProxies, 0 is nil
    lcServe,      \* "loop", "done" (Serve returned), "panic"
    \* link flags (internal/build/build.go, collectLDFlags)
    ldFileFlags, \* fileFlags: generated C file -> the LDFLAGS of its source file, in source order
    ldBuilds,    \* the result of collectLDFlags in each build of the project so far
    ld_pc,        \* "build": the project is there and can be built
    \* diagnostics of one .cm file (internal/lsp/linemap.go refreshFile, onClangdNotification; clangd.go readLoop)
    dgRefresh,   \* number of refreshFile calls for the file that got past the transpile
    dg_pc,       \* position of the main goroutine in refreshFile: "idle", "openSent"
                 \* (didOpen written, clear not yet), "cleared" (clear written, didChange not yet)
    dgInbox,     \* the texts written to clangd it has not analysed yet, each named by its refresh
    dgPipe,      \* the publishDiagnostics clangd wrote that the read loop has not read yet
    dgClient,     \* the publishDiagnostics written to the client for the .cm file, in order
    \* qualified references (internal/codegen/codegen.go mangleTypeInSignature, transform.go)
    qnPath,      \* import path P of the module that declares the public symbol
    qnSym,       \* local name s of the symbol
    qnRef,       \* where another module refers to it: "body", or "signature" with its text
    qnOut,       \* the C text emitted for the reference
    qn_pc,        \* "start", "done"
    \* generated file paths (internal/paths/paths.go)
    ptFiles,     \* two source files of one project, each an import path and a .cm base name
    ptPaths,     \* for each of them the generated C, object, public and internal header paths
    pt_pc        \* "start", "done"

cycVars == <<Modules, Imports, inDegree, queue, processed, cyc_pc, cyc_err>>
lmVars == <<cLines, segments, lm_pc, lm_query, lm_result>>
trVars == <<bodyPieces, body, trMaps, tokens, chunks, tr_pc>>
cgVars == <<files, cg_maps, cg_lists, publicHeader, internalHeader, cFilesOut, cg_pc>>
cmpVars == <<cmText, diskFile, cursor, cmCtx, cmItems, cmp_pc>>
lspVars == <<serve, refreshing, clangd, openDocs, openedCDocs, lineMaps, cFileDisk,
             clangdDocs, clangdSync, reply, lmUse>>

btVars == <<buildTags, buildCtx, bt_result, bt_pc>>
bldVars == <<modFiles, modFiles0, jobs, visited, task, taskFile, sem, invoked, errCount, bld_pc>>
pxVars == <<nextID, pending, pxCall, pxChan, pxGot, pxWire, pxSent, pxLast>>
rnVars == <<rnPieces, rnText, rnPos, rnNew, rnReply, rn_pc>>
lcVars == <<lcProxies, lcCur, lcServe>>
lkVars == <<ldFileFlags, ldBuilds, ld_pc>>
dgVars == <<dgRefresh, dg_pc, dgInbox, dgPipe, dgClient>>
qnVars == <<qnPath, qnSym, qnRef, qnOut, qn_pc>>
ptVars == <<ptFiles, ptPaths, pt_pc>>
vars == <<cycVars, lmVars, trVars, cgVars, cmpVars, lspVars, btVars, bldVars, pxVars, rnVars, lcVars, lkVars, dgVars, qnVars, ptVars>>

notCyc == <<lmVars, trVars, cgVars, cmpVars, lspVars, btVars, bldVars, pxVars, rnVars, lcVars, lkVars, dgVars, qnVars, ptVars>>
notLm == <<cycVars, trVars, cgVars, cmpVars, lspVars, btVars, bldVars, pxVars, rnVars, lcVars, lkVars, dgVars, qnVars, ptVars>>
notTr == <<cycVars, lmVars, cgVars, cmpVars, lspVars, btVars, bldVars, pxVars, rnVars, lcVars, lkVars, dgVars, qnVars, ptVars>>
notCg == <<cycVars, lmVars, trVars, cmpVars, lspVars, btVars, bldVars, pxVars, rnVars, lcVars, lkVars, dgVars, qnVars, ptVars>>
notCmp == <<cycVars, lmVars, trVars, cgVars, lspVars, btVars, bldVars, pxVars, rnVars, lcVars, lkVars, dgVars, qnVars, ptVars>>
notLsp == <<cycVars, lmVars, trVars, cgVars, cmpVars, btVars, bldVars, pxVars, rnVars, lcVars, lkVars, dgVars, qnVars, ptVars>>
notBt == <<cycVars, lmVars, trVars, cgVars, cmpVars, lspVars, bldVars, pxVars, rnVars, lcVars, lkVars, dgVars, qnVars, ptVars>>
notBld == <<cycVars, lmVars, trVars, cgVars, cmpVars, lspVars, btVars, pxVars, rnVars, lcVars, lkVars, dgVars, qnVars, ptVars>>
notPx == <<cycVars, lmVars, trVars, cgVars, cmpVars, lspVars, btVars, bldVars, rnVars, lcVars, lkVars, dgVars, qnVars, ptVars>>
notRn == <<cycVars, lmVars, trVars, cgVars, cmpVars, lspVars, btVars, bldVars, pxVars, lcVars, lkVars, dgVars, qnVars, ptVars>>
notLc == <<cycVars, lmVars, trVars, cgVars, cmpVars, lspVars, btVars, bldVars, pxVars, rnVars, lkVars, dgVars, qnVars, ptVars>>
notLk == <<cycVars, lmVars, trVars, cgVars, cmpVars, lspVars, btVars, bldVars, pxVars, rnVars, lcVars, dgVars, qnVars, ptVars>>
notDg == <<cycVars, lmVars, trVars, cgVars, cmpVars, lspVars, btVars, bldVars, pxVars, rnVars, lcVars, lkVars, qnVars, ptVars>>
notQn == <<cycVars, lmVars, trVars, cgVars, cmpVars, lspVars, btVars, bldVars, pxVars, rnVars, lcVars, lkVars, dgVars, ptVars>>
notPt == <<cycVars, lmVars, trVars, cgVars, cmpVars, lspVars, btVars, bldVars, pxVars, rnVars, lcVars, lkVars, dgVars, qnVars>>

\* a component that a specification does not exercise stays in this state
CycIdle ==
    /\ Modules = {}
    /\ Imports = <<>>
    /\ inDegree = <<>>
    /\ queue = <<>>
    /\ processed = 0
    /\ cyc_pc = "idle"
    /\ cyc_err = ""

LmIdle ==
    /\ cLines = <<>>
    /\ segments = <<>>
    /\ lm_pc = "idle"
    /\ lm_query = <<>>
    /\ lm_result = <<>>

TrIdle ==
    /\ bodyPieces = <<>>
    /\ body = <<>>
    /\ trMaps = <<>>
    /\ tokens = <<>>
    /\ chunks = <<>>
    /\ tr_pc = "idle"

CgIdle ==
    /\ files = <<>>
    /\ cg_maps = <<>>
    /\ cg_lists = <<>>
    /\ publicHeader = <<>>
    /\ internalHeader = <<>>
    /\ cFilesOut = <<>>
    /\ cg_pc = "idle"

CmpIdle ==
    /\ cmText = <<>>
    /\ diskFile = <<>>
    /\ cursor = <<>>
    /\ cmCtx = <<>>
    /\ cmItems = <<>>
    /\ cmp_pc = "idle"

BtIdle ==
    /\ buildTags = <<>>
    /\ buildCtx = <<>>
    /\ bt_result = FALSE
    /\ bt_pc = "idle"

BldIdle ==
    /\ modFiles = <<>>
    /\ modFiles0 = <<>>
    /\ jobs = 0
    /\ visited = {}
    /\ task = <<>>
    /\ taskFile = <<>>
    /\ sem = 0
    /\ invoked = {}
    /\ errCount = 0
    /\ bld_pc = "idle"

PxIdle ==
    /\ nextID = 0
    /\ pending = <<>>
    /\ pxCall = <<>>
    /\ pxChan = <<>>
    /\ pxGot = <<>>
    /\ pxWire = <<>>
    /\ pxSent = 0
    /\ pxLast = <<>>

RnIdle ==
    /\ rnPieces = <<>>
    /\ rnText = <<>>
    /\ rnPos = <<>>
    /\ rnNew = <<>>
    /\ rnReply = <<>>
    /\ rn_pc = "idle"

LcIdle ==
    /\ lcProxies = <<>>
    /\ lcCur = 0
    /\ lcServe = "idle"

LkIdle ==
    /\ ldFileFlags = <<>>
    /\ ldBuilds = <<>>
    /\ ld_pc = "idle"

DgIdle ==
    /\ dgRefresh = 0
    /\ dg_pc = "off"
    /\ dgInbox = <<>>
    /\ dgPipe = <<>>
    /\ dgClient = <<>>

QnIdle ==
    /\ qnPath = <<>>
    /\ qnSym = <<>>
    /\ qnRef = <<>>
    /\ qnOut = <<>>
    /\ qn_pc = "idle"

PtIdle ==
    /\ ptFiles = <<>>
    /\ ptPaths = <<>>
    /\ pt_pc = "idle"

NoUse == [by |-> "none", file |-> ""]

LspIdle ==
    /\ serve = "idle"
    /\ refreshing = ""
    /\ clangd = "nil"
    /\ openDocs = <<>>
    /\ openedCDocs = <<>>
    /\ lineMaps = <<>>
    /\ cFileDisk = <<>>
    /\ clangdDocs = <<>>
    /\ clangdSync = <<>>
    /\ reply = "none"
    /\ lmUse = NoUse

(***************************************************************************)
(* Component C: project resolver, cycle detection                          *)
(***************************************************************************)
Names == 1..MaxNames

ErrCircular == "circular dependency detected among modules"

\* the state after validateModules: every module has its set of imports; an
\* import path need not be a module of the project
CycStart ==
    /\ Modules \in (SUBSET Names) \ {{}}
    /\ Imports \in [Modules -> SUBSET Names]
    /\ inDegree = <<>>
    /\ queue = <<>>
    /\ processed = 0
    /\ cyc_pc = "build"
    /\ cyc_err = ""

\* graph[current]: a missing key of a Go map reads as the nil slice
graph(current) == IF current \in Modules THEN Imports[current] ELSE {}

\* project.go:407-415, the in-degree of every key after the first loop
BuildInDegree ==
    [p \in Modules \cup UNION {Imports[m] : m \in Modules} |->
        Cardinality({m \in Modules : p \in Imports[m]})]

\* project.go:404-415
DetectCycles_BuildGraph ==
    /\ cyc_pc = "build"
    /\ inDegree' = BuildInDegree
    /\ cyc_pc' = "queue"
    /\ UNCHANGED <<Modules, Imports, queue, processed, cyc_err>>
    /\ UNCHANGED notCyc

\* project.go:418-423, the map is ranged over in an arbitrary order
DetectCycles_InitQueue ==
    /\ cyc_pc = "queue"
    /\ \E q \in Perms({p \in DOMAIN inDegree : inDegree[p] = 0}) : queue' = q
    /\ processed' = 0
    /\ cyc_pc' = "loop"
    /\ UNCHANGED <<Modules, Imports, inDegree, cyc_err>>
    /\ UNCHANGED notCyc

\* project.go:426-437, one iteration of the loop
DetectCycles_Step ==
    /\ cyc_pc = "loop"
    /\ Len(queue) > 0
    /\ LET current == Head(queue)
           dec == [p \in DOMAIN inDegree |->
                     IF p \in graph(current) THEN inDegree[p] - 1 ELSE inDegree[p]]
       IN /\ inDegree' = dec
          /\ \E app \in Perms({p \in graph(current) : dec[p] = 0}) :
                queue' = Tail(queue) \o app
    /\ processed' = processed + 1
    /\ UNCHANGED <<Modules, Imports, cyc_pc, cyc_err>>
    /\ UNCHANGED notCyc

\* project.go:439-444
DetectCyclesResult(n, modules) == IF n # Cardinality(modules) THEN ErrCircular ELSE ""

DetectCycles_Return ==
    /\ cyc_pc = "loop"
    /\ Len(queue) = 0
    /\ cyc_err' = DetectCyclesResult(processed, Modules)
    /\ cyc_pc' = "done"
    /\ UNCHANGED <<Modules, Imports, inDegree, queue, processed>>
    /\ UNCHANGED notCyc

CycNext ==
    \/ DetectCycles_BuildGraph
    \/ DetectCycles_InitQueue
    \/ DetectCycles_Step
    \/ DetectCycles_Return

CycInit == CycStart /\ LmIdle /\ TrIdle /\ CgIdle /\ CmpIdle /\ LspIdle /\ BtIdle /\ BldIdle /\ PxIdle /\ RnIdle /\ LcIdle /\ LkIdle /\ DgIdle /\ QnIdle /\ PtIdle

SpecCycles == CycInit /\ [][CycNext]_vars

\* ---- the import relation among the modules of the project ----
\* m reaches n through a non-empty chain of imports between modules
RECURSIVE ReachSet(_, _)
ReachSet(S, k) ==
    IF k = 0 THEN S
    ELSE ReachSet(S \cup UNION {Imports[m] \cap Modules : m \in S \cap Modules}, k - 1)

ImportsCycle ==
    \E m \in Modules : m \in ReachSet(Imports[m] \cap Modules, MaxNames)

HasForeignImport == \E m \in Modules : Imports[m] \ Modules # {}

\* C1: whenever the import relation among the modules has a cycle, detectCycles
\* returns the error whose message contains "circular", whatever other import
\* paths are declared.
C1_CycleReported ==
    (cyc_pc = "done" /\ ImportsCycle) => cyc_err = ErrCircular

\* C2: whenever the import relation among the modules is acyclic, detectCycles
\* returns no error, whatever import paths are declared.
C2_AcyclicPasses ==
    (cyc_pc = "done" /\ ~ImportsCycle) => cyc_err = ""

(***************************************************************************)
(* Component G: lineMapper (internal/lsp/linemap.go)                       *)
(***************************************************************************)
\* machine integers: Go's int wraps around silently
MaxInt == 2^(IntBits - 1) - 1
Wrap(x) == ((x + 2^(IntBits - 1)) % 2^IntBits) - 2^(IntBits - 1)

CmFiles == {"a.cm", "b.cm"}

\* One line of a generated C file, as newLineMapperFromC classifies it:
\*   text       a line that does not start with "#line "
\*   malformed  a "#line " line the scanner skips (fewer than two fields, a
\*              number strconv.Atoi rejects, or a path without opening quote)
\*   line       #line <n> "<file>"
TextLine == [kind |-> "text", n |-> 0, file |-> ""]
MalformedLine == [kind |-> "malformed", n |-> 0, file |-> ""]
LineDirective(n, f) == [kind |-> "line", n |-> n, file |-> f]
\* a #line directive names a .cm file or, in C text that was not generated
\* from a .cm file, another file
HeaderFiles == {"d.h"}
LineDirectives ==
    {LineDirective(n, f) : n \in 1..MaxOrigLine, f \in CmFiles}
        \cup {LineDirective(1, f) : f \in HeaderFiles}
CLine == {TextLine, MalformedLine} \cup LineDirectives
CFiles == UNION {[1..len -> CLine] : len \in 0..MaxGenLines}

Segment(out, orig, f) == [outStartLine |-> out, origStartLine |-> orig, origFile |-> f]

\* linemap.go:58-96, the scanner loop: outLine counts the lines read so far
RECURSIVE scanLines(_, _, _)
scanLines(text, outLine, segs) ==
    IF outLine > Len(text) THEN segs
    ELSE IF text[outLine].kind = "line"
         THEN scanLines(text, outLine + 1,
                        Append(segs, Segment(outLine + 1, text[outLine].n, text[outLine].file)))
         ELSE scanLines(text, outLine + 1, segs)

\* linemap.go:51-102
newLineMapperFromC(text) == scanLines(text, 1, <<Segment(1, 1, "")>>)

NotFound == [out |-> 0, ok |-> FALSE]

\* linemap.go:25-46, the loop from segment i on
RECURSIVE mapToGeneratedFrom(_, _, _, _)
mapToGeneratedFrom(segs, i, origFile, origLine1Based) ==
    IF i > Len(segs) THEN NotFound
    ELSE LET seg == segs[i]
             endOut == IF i + 1 <= Len(segs) THEN segs[i + 1].outStartLine - 1 ELSE MaxInt
             maxOrig == Wrap(seg.origStartLine + Wrap(endOut - seg.outStartLine))
         IN IF seg.origFile # origFile
            THEN mapToGeneratedFrom(segs, i + 1, origFile, origLine1Based)
            ELSE IF origLine1Based < seg.origStartLine
            THEN mapToGeneratedFrom(segs, i + 1, origFile, origLine1Based)
            ELSE IF origLine1Based > maxOrig
            THEN mapToGeneratedFrom(segs, i + 1, origFile, origLine1Based)
            ELSE [out |-> Wrap(seg.outStartLine + Wrap(origLine1Based - seg.origStartLine)),
                  ok |-> TRUE]

\* linemap.go:20-49
mapToGeneratedLine(segs, origFile, origLine1Based) ==
    IF Len(segs) = 0 THEN NotFound
    ELSE mapToGeneratedFrom(segs, 1, origFile, origLine1Based)

\* linemap.go:109-115, the last segment starting at or before outLine
RECURSIVE lastSegmentUpTo(_, _, _, _)
lastSegmentUpTo(segs, i, seg, outLine1Based) ==
    IF i > Len(segs) THEN seg
    ELSE lastSegmentUpTo(segs, i + 1,
                         IF segs[i].outStartLine <= outLine1Based THEN segs[i] ELSE seg,
                         outLine1Based)

\* linemap.go:104-126
mapLine(segs, outLine1Based) ==
    IF Len(segs) = 0 THEN [origFile |-> "", origLine |-> outLine1Based]
    ELSE LET seg == lastSegmentUpTo(segs, 1, segs[1], outLine1Based)
             d == outLine1Based - seg.outStartLine
             delta == IF d < 0 THEN 0 ELSE d
         IN IF seg.origFile = ""
            THEN [origFile |-> "", origLine |-> outLine1Based]
            ELSE [origFile |-> seg.origFile, origLine |-> Wrap(seg.origStartLine + delta)]

LmStart ==
    /\ cLines \in CFiles
    /\ segments = <<>>
    /\ lm_pc = "new"
    /\ lm_query = <<>>
    /\ lm_result = <<>>

\* getLineMapperForCFile / forwardHover: the mapper is built from the C file
NewLineMapper ==
    /\ lm_pc = "new"
    /\ segments' = newLineMapperFromC(cLines)
    /\ lm_pc' = "built"
    /\ UNCHANGED <<cLines, lm_query, lm_result>>
    /\ UNCHANGED notLm

\* original lines a client can ask for
OrigLines == 1..(MaxOrigLine + MaxGenLines)

\* forwardHover (part_006:66): the original-to-generated lookup
MapToGeneratedLine ==
    /\ lm_pc \in {"built", "queried"}
    /\ \E f \in CmFiles, l \in OrigLines :
          /\ lm_query' = <<"toGenerated", f, l>>
          /\ lm_result' = mapToGeneratedLine(segments, f, l)
    /\ lm_pc' = "queried"
    /\ UNCHANGED <<cLines, segments>>
    /\ UNCHANGED notLm

\* onClangdNotification (linemap.go:545): the generated-to-original lookup
MapLine ==
    /\ lm_pc \in {"built", "queried"}
    /\ \E l \in 1..(MaxGenLines + 1) :
          /\ lm_query' = <<"toOriginal", l>>
          /\ lm_result' = mapLine(segments, l)
    /\ lm_pc' = "queried"
    /\ UNCHANGED <<cLines, segments>>
    /\ UNCHANGED notLm

\* filepath.Ext of the files of the model
Ext(f) == IF f \in CmFiles THEN ".cm" ELSE IF f \in HeaderFiles THEN ".h" ELSE ""

\* a diagnostic of clangd's publishDiagnostics: 0-based lines of the generated file
Diagnostics ==
    {[startLine |-> a, endLine |-> b, startChar |-> 1, endChar |-> 2,
      severity |-> 1, source |-> "gcc", message |-> "msg"] :
        a \in 0..(MaxGenLines - 1), b \in 0..(MaxGenLines - 1)}

\* linemap.go:544-565: one diagnostic of the loop in onClangdNotification
republish(segs, d) ==
    LET m == mapLine(segs, d.startLine + 1) IN
    IF m.origFile = "" \/ Ext(m.origFile) # ".cm" THEN [published |-> FALSE]
    ELSE [published |-> TRUE, uri |-> m.origFile,
          startLine |-> Wrap(m.origLine - 1), startChar |-> d.startChar,
          endLine |-> Wrap(m.origLine - 1), endChar |-> d.endChar,
          severity |-> d.severity, source |-> "clangd", message |-> d.message]

\* linemap.go:504-572: clangd publishes a diagnostic for the generated file
OnClangdNotification_Republish ==
    /\ lm_pc \in {"built", "queried"}
    /\ \E d \in Diagnostics :
          /\ d.startLine <= d.endLine
          /\ lm_query' = <<"diagnostic", d>>
          /\ lm_result' = republish(segments, d)
    /\ lm_pc' = "queried"
    /\ UNCHANGED <<cLines, segments>>
    /\ UNCHANGED notLm

LmNext ==
    \/ NewLineMapper
    \/ MapToGeneratedLine
    \/ MapLine
    \/ OnClangdNotification_Republish

LmInit == LmStart /\ CycIdle /\ TrIdle /\ CgIdle /\ CmpIdle /\ LspIdle /\ BtIdle /\ BldIdle /\ PxIdle /\ RnIdle /\ LcIdle /\ LkIdle /\ DgIdle /\ QnIdle /\ PtIdle

SpecLineMap == LmInit /\ [][LmNext]_vars

\* ---- what the #line directives of the file say ----
\* the generated lines that carry a directive the scanner accepts
DirectiveLines == {k \in 1..Len(cLines) : cLines[k].kind = "line"}
IsLastDirective(k) == \A j \in DirectiveLines : j <= k
NextDirective(k) == CHOOSE j \in DirectiveLines : j > k /\ \A i \in DirectiveLines : i > k => j <= i

\* generated line k+1+d is governed by the directive on line k
Governs(k, d) ==
    /\ k \in DirectiveLines
    /\ d >= 0
    /\ IsLastDirective(k) \/ k + 1 + d < NextDirective(k)

\* C6: for every #line n "src" on generated line k and every d >= 0 such that
\* generated line k+1+d lies before the next directive (or the directive is the
\* last one), the lookup of (src, n+d) returns generated line k+1+d.
C6_ForwardLookup ==
    (lm_pc = "queried" /\ lm_query[1] = "toGenerated") =>
        \A k \in DirectiveLines :
            \A d \in 0..(MaxOrigLine + MaxGenLines) :
                (/\ Governs(k, d)
                 /\ lm_query[2] = cLines[k].file
                 /\ lm_query[3] = cLines[k].n + d)
                => lm_result = [out |-> k + 1 + d, ok |-> TRUE]

\* the last segment of the mapper, and whether it is the only one of its file
LastSegment == segments[Len(segments)]
LastSegmentAlone == \A i \in 1..(Len(segments) - 1) : segments[i].origFile # LastSegment.origFile

\* C30: for the last segment, with generated start line s, original start
\* line n and file f, the lookup of (f, n+d) returns s+d for every d >= 0,
\* whatever the relation between n and s (no other segment names f).
C30_LastSegmentLookup ==
    (/\ lm_pc = "queried" /\ lm_query[1] = "toGenerated"
     /\ segments # <<>> /\ LastSegmentAlone
     /\ lm_query[2] = LastSegment.origFile
     /\ lm_query[3] >= LastSegment.origStartLine)
    => lm_result = [out |-> LastSegment.outStartLine + (lm_query[3] - LastSegment.origStartLine),
                    ok |-> TRUE]

\* C18: a republished diagnostic starts on the LineMapper image of its
\* generated start line and ends on the image of its generated end line;
\* severity, message and character columns are those of clangd's diagnostic
\* and the diagnostic is published under a .cm file.
C18_DiagnosticLinesMapped ==
    (lm_pc = "queried" /\ lm_query[1] = "diagnostic" /\ lm_result.published)
    => LET d == lm_query[2] IN
       /\ lm_result.startLine = mapLine(segments, d.startLine + 1).origLine - 1
       /\ lm_result.endLine = mapLine(segments, d.endLine + 1).origLine - 1
       /\ lm_result.startChar = d.startChar /\ lm_result.endChar = d.endChar
       /\ lm_result.severity = d.severity /\ lm_result.message = d.message
       /\ Ext(lm_result.uri) = ".cm"

(***************************************************************************)
(* Component D: body transformer (internal/transform/transform.go)         *)
(***************************************************************************)
\* A byte is a one-character string; text is a sequence of bytes.
Letters == {"a", "x", "s", "u", "E", "h"}
Digits == {"1"}

RECURSIVE Flatten(_)
Flatten(seqs) == IF seqs = <<>> THEN <<>> ELSE Head(seqs) \o Flatten(Tail(seqs))

\* paths.go:11-13, strings.ReplaceAll(importPath, "/", "_")
SanitizeModuleName(importPath) ==
    [i \in 1..Len(importPath) |-> IF importPath[i] = "/" THEN "_" ELSE importPath[i]]

\* transform.go:317-319 (unicode.IsLetter on the bytes of the model)
isIdentStart(ch) == ch \in Letters \/ ch = "_"

\* transform.go:321-323
isIdentContinue(ch) == ch \in Letters \/ ch \in Digits \/ ch = "_"

Token(kind, value) == [kind |-> kind, value |-> value]

\* transform.go:213-218
flushIdent(toks, current) ==
    IF Len(current) > 0 THEN Append(toks, Token("ident", current)) ELSE toks

\* transform.go:220-225
flushOther(toks, current) ==
    IF Len(current) > 0 THEN Append(toks, Token("other", current)) ELSE toks

\* transform.go:248-261 and 276-288: the loop that consumes a literal up to
\* (not including) its closing quote; i is the 1-based index of the next byte
RECURSIVE consumeLiteral(_, _, _, _)
consumeLiteral(b, i, current, quote) ==
    IF ~(i <= Len(b) /\ b[i] # quote) THEN [i |-> i, current |-> current]
    ELSE IF b[i] = "\\" /\ i < Len(b)
         THEN consumeLiteral(b, i + 2, current \o <<b[i], b[i + 1]>>, quote)
         ELSE consumeLiteral(b, i + 1, Append(current, b[i]), quote)

\* transform.go:230-309, the main loop from byte i on
RECURSIVE tokenizeFrom(_, _, _, _, _)
tokenizeFrom(b, i, current, inIdent, toks) ==
    IF i > Len(b)
    THEN \* transform.go:311-312: flushIdent() resets current, flushOther() then sees it empty
         flushOther(flushIdent(toks, current), <<>>)
    ELSE LET ch == b[i] IN
      IF ch = "."
      THEN \* 233-238
           tokenizeFrom(b, i + 1, <<>>, FALSE,
                        Append(flushOther(flushIdent(toks, current), <<>>), Token("dot", <<".">>)))
      ELSE IF ch = "\"" \/ ch = "'"
      THEN \* 239-293
           LET toks1 == IF inIdent THEN flushIdent(toks, current) ELSE toks
               cur1 == IF inIdent THEN <<>> ELSE current
               lit == consumeLiteral(b, i + 1, Append(cur1, ch), ch)
           IN IF lit.i <= Len(b)
              THEN tokenizeFrom(b, lit.i + 1, Append(lit.current, b[lit.i]), FALSE, toks1)
              ELSE tokenizeFrom(b, lit.i, lit.current, FALSE, toks1)
      ELSE IF isIdentStart(ch) \/ (inIdent /\ isIdentContinue(ch))
      THEN \* 294-300
           IF ~inIdent
           THEN tokenizeFrom(b, i + 1, <<ch>>, TRUE, flushOther(toks, current))
           ELSE tokenizeFrom(b, i + 1, Append(current, ch), TRUE, toks)
      ELSE \* 301-308
           IF inIdent
           THEN tokenizeFrom(b, i + 1, <<ch>>, FALSE, flushIdent(toks, current))
           ELSE tokenizeFrom(b, i + 1, Append(current, ch), FALSE, toks)

\* transform.go:209-315
tokenize(b) == tokenizeFrom(b, 1, <<>>, FALSE, <<>>)

\* a Go map lookup: found, and the value
Has(map, key) == key \in DOMAIN map

\* One WriteString of the transformer: the tokens first..last it consumed and
\* the text it wrote for them.
Chunk(first, last, text) == [first |-> first, last |-> last, text |-> text]

\* transform.go:149-164, collecting the rest of a qualified name from token i
\* on; returns the parts and the index of the first token not consumed
RECURSIVE collectParts(_, _, _)
collectParts(toks, i, parts) ==
    IF i <= Len(toks) /\ toks[i].kind = "ident"
    THEN IF i + 1 <= Len(toks) /\ toks[i + 1].kind = "dot"
         THEN collectParts(toks, i + 2, Append(parts, toks[i].value))
         ELSE [i |-> i + 1, parts |-> Append(parts, toks[i].value)]
    ELSE [i |-> i, parts |-> parts]

\* strings.Join(parts, "_")
RECURSIVE JoinUnderscore(_)
JoinUnderscore(parts) ==
    IF Len(parts) = 0 THEN <<>>
    ELSE IF Len(parts) = 1 THEN parts[1]
    ELSE parts[1] \o <<"_">> \o JoinUnderscore(Tail(parts))

\* transform.go:173-183, the text written for a bare identifier
bareIdent(maps, value) ==
    IF Has(maps.enumValues, value) THEN maps.enumValues[value]
    ELSE IF Has(maps.globalVars, value) THEN maps.globalVars[value]
    ELSE value

\* transform.go:121-189, the loop from token i on
RECURSIVE transformFrom(_, _, _, _)
transformFrom(toks, i, maps, out) ==
    IF i > Len(toks) THEN out
    ELSE LET tok == toks[i] IN
      IF tok.kind = "ident" /\ i + 1 <= Len(toks) /\ toks[i + 1].kind = "dot"
      THEN IF Has(maps.cimportMap, tok.value)
           THEN \* 129-137
                IF i + 2 <= Len(toks) /\ toks[i + 2].kind = "ident"
                THEN transformFrom(toks, i + 3, maps,
                                   Append(out, Chunk(i, i + 2, toks[i + 2].value)))
                ELSE transformFrom(toks, i + 2, maps, Append(out, Chunk(i, i + 1, <<>>)))
           ELSE IF Has(maps.importMap, tok.value)
           THEN \* 138-167
                LET got == collectParts(toks, i + 2,
                                        <<SanitizeModuleName(maps.importMap[tok.value])>>)
                IN transformFrom(toks, got.i, maps,
                                 Append(out, Chunk(i, got.i - 1, JoinUnderscore(got.parts))))
           ELSE \* 168-172
                transformFrom(toks, i + 1, maps, Append(out, Chunk(i, i, tok.value)))
      ELSE IF tok.kind = "ident"
      THEN transformFrom(toks, i + 1, maps, Append(out, Chunk(i, i, bareIdent(maps, tok.value))))
      ELSE transformFrom(toks, i + 1, maps, Append(out, Chunk(i, i, tok.value)))

\* the string TransformFunctionBodyFull returns (transform.go:191)
ResultString(out) == Flatten([j \in 1..Len(out) |-> out[j].text])

\* ---- the inputs ----
Piece(kind, text) == [kind |-> kind, text |-> text]

\* the contents a literal or a comment is written with
LiteralContents == {<<"a">>, <<"\\", "\"">>, <<"\\", "'">>, <<"/", "/">>}
CommentContents == {<<"a">>, <<"\"">>, <<"'">>}

\* C lexical elements a function body is written from
Pieces ==
    {Piece("ident", <<"a">>), Piece("ident", <<"x">>), Piece("dot", <<".">>),
     Piece("number", <<"1">>), Piece("space", <<" ">>)}
    \cup {Piece("string", <<"\"">> \o c \o <<"\"">>) : c \in LiteralContents \cup {<<"'">>}}
    \cup {Piece("char", <<"'">> \o c \o <<"'">>) : c \in LiteralContents \cup {<<"\"">>}}
    \cup {Piece("linecomment", <<"/", "/">> \o c \o <<"\n">>) : c \in CommentContents}
    \cup {Piece("blockcomment", <<"/", "*">> \o c \o <<"*", "/">>) : c \in CommentContents}

Bodies == UNION {[1..n -> Pieces] : n \in 0..MaxPieces}

NoMap == <<>>
EmptyMaps ==
    [importMap |-> NoMap, cimportMap |-> NoMap, enumValues |-> NoMap,
     globalVars |-> NoMap]

\* The maps generateCFile builds for a file of module "s": the name a is, in
\* turn, a value of enum E, a non-static global, the prefix
\* of the imported module "u/a", the prefix of the C header "a.h".
MapConfigs ==
    {[EmptyMaps EXCEPT !.enumValues = (<<"a">> :> <<"s", "_", "E", "_", "a">>)],
     [EmptyMaps EXCEPT !.globalVars = (<<"a">> :> <<"s", "_", "a">>)],
     [EmptyMaps EXCEPT !.importMap = (<<"a">> :> <<"u", "/", "a">>)],
     [EmptyMaps EXCEPT !.cimportMap = (<<"a">> :> <<"a", ".", "h">>)]}

TrStart ==
    /\ bodyPieces \in Bodies
    /\ body = Flatten([j \in 1..Len(bodyPieces) |-> bodyPieces[j].text])
    /\ trMaps \in MapConfigs
    /\ tokens = <<>>
    /\ chunks = <<>>
    /\ tr_pc = "start"

\* transform.go:115
Tokenize ==
    /\ tr_pc = "start"
    /\ tokens' = tokenize(body)
    /\ tr_pc' = "tokens"
    /\ UNCHANGED <<bodyPieces, body, trMaps, chunks>>
    /\ UNCHANGED notTr

\* transform.go:117-191
TransformFunctionBodyFull ==
    /\ tr_pc = "tokens"
    /\ chunks' = transformFrom(tokens, 1, trMaps, <<>>)
    /\ tr_pc' = "done"
    /\ UNCHANGED <<bodyPieces, body, trMaps, tokens>>
    /\ UNCHANGED notTr

TrNext ==
    \/ Tokenize
    \/ TransformFunctionBodyFull

TrInit == TrStart /\ CycIdle /\ LmIdle /\ CgIdle /\ CmpIdle /\ LspIdle /\ BtIdle /\ BldIdle /\ PxIdle /\ RnIdle /\ LcIdle /\ LkIdle /\ DgIdle /\ QnIdle /\ PtIdle

SpecTransform == TrInit /\ [][TrNext]_vars

\* ---- claims about the transformer ----
IsSubSeq(p, t) == \E i \in 0..(Len(t) - Len(p)) : SubSeq(t, i + 1, i + Len(p)) = p

\* the name a is a value of the module's enum E
EnumConfig == Has(trMaps.enumValues, <<"a">>)

WordKinds == {"ident", "number", "dot"}

\* piece j is the identifier a standing alone: no identifier, number or
\* member access touches it
BareOccurrence(j) ==
    /\ bodyPieces[j] = Piece("ident", <<"a">>)
    /\ j > 1 => bodyPieces[j - 1].kind \notin WordKinds
    /\ j < Len(bodyPieces) => bodyPieces[j + 1].kind \notin WordKinds

\* C8: in a body of the module that declares the enum, a bare occurrence of
\* the enum value name a is rewritten to s_E_a, and a string literal or a
\* comment that contains the name is found unchanged in the output.
C8_EnumValueRewriting ==
    (tr_pc = "done" /\ EnumConfig) =>
        /\ \A j \in 1..Len(bodyPieces) :
               BareOccurrence(j) => IsSubSeq(trMaps.enumValues[<<"a">>], ResultString(chunks))
        /\ \A j \in 1..Len(bodyPieces) :
               (/\ bodyPieces[j].kind \in {"string", "linecomment", "blockcomment"}
                /\ IsSubSeq(<<"a">>, bodyPieces[j].text))
               => IsSubSeq(bodyPieces[j].text, ResultString(chunks))

\* C9: every string literal and every character literal of the body is found
\* byte for byte in the transformer's output, whatever the maps contain.
C9_LiteralsUnchanged ==
    tr_pc = "done" =>
        \A j \in 1..Len(bodyPieces) :
            bodyPieces[j].kind \in {"string", "char"}
            => IsSubSeq(bodyPieces[j].text, ResultString(chunks))

\* the text of the tokens first..last, as tokenize cut them out of the body
TokenText(first, last) == Flatten([j \in 1..(last - first + 1) |-> tokens[first + j - 1].value])

\* chunk c replaced the identifier run that starts at token c.first
Rewrites(c) == tokens[c.first].kind = "ident" /\ c.text # TokenText(c.first, c.last)

\* the byte of the body that immediately precedes token j (tokens are
\* consecutive non-empty pieces of the body)
PrecedingByte(j) == tokens[j - 1].value[Len(tokens[j - 1].value)]

\* C19: a run of identifier characters that the transformer rewrites is not
\* immediately preceded by an identifier character (letter, digit or _); the
\* letters after the digits of a number are not replaced through the maps.
C19_NoRewriteAfterIdentByte ==
    tr_pc = "done" =>
        \A k \in 1..Len(chunks) :
            (Rewrites(chunks[k]) /\ chunks[k].first > 1)
            => ~isIdentContinue(PrecedingByte(chunks[k].first))

\* the body is written from identifiers, dots and spaces only: every
\* ident . ident of the tokens is a member access of the C text
PlainBody == \A j \in 1..Len(bodyPieces) : bodyPieces[j].kind \in {"ident", "dot", "space"}

IsImportPrefix(name) == Has(trMaps.importMap, name) \/ Has(trMaps.cimportMap, name)

\* token i is the member name f of an access x.f whose head x starts the
\* expression and is not an import prefix
MemberNameAt(i) ==
    /\ i >= 3 /\ i <= Len(tokens)
    /\ tokens[i].kind = "ident" /\ tokens[i - 1].kind = "dot" /\ tokens[i - 2].kind = "ident"
    /\ ~IsImportPrefix(tokens[i - 2].value)
    /\ i > 3 => tokens[i - 3].kind # "dot"

\* C26: in a member access x.f whose head x is not an import prefix the
\* member name f is written to the output unchanged, also when f is the name
\* of an enum value or of a non-static global of the module.
C26_MemberNameUnchanged ==
    (tr_pc = "done" /\ PlainBody) =>
        \A k \in 1..Len(chunks) :
            (MemberNameAt(chunks[k].first) /\ chunks[k].last = chunks[k].first)
            => chunks[k].text = tokens[chunks[k].first].value

(***************************************************************************)
(* Component E: code generator (internal/codegen/codegen.go)               *)
(***************************************************************************)
\* mod.ImportPath of the generated module, and its sanitized name
CgImportPath == <<"s">>
moduleName == SanitizeModuleName(CgImportPath)

DeclNames == {"x"}
TypeKinds == {"struct", "union", "enum", "typedef"}

\* parser.Decl: exactly one of Function, Struct, Union, Enum, Typedef, Global,
\* Define is set.  braced says that a struct or union has a body; static is
\* the Static flag of a global.
Decl(kind, name, public, static, braced) ==
    [kind |-> kind, name |-> name, public |-> public, static |-> static, braced |-> braced]

Decls ==
    {Decl(k, n, p, FALSE, TRUE) : k \in {"func", "enum"}, n \in DeclNames, p \in BOOLEAN}
    \cup {Decl(k, n, p, FALSE, FALSE) : k \in {"typedef", "define"}, n \in DeclNames, p \in BOOLEAN}
    \cup {Decl(k, n, p, FALSE, b) : k \in {"struct", "union"}, n \in DeclNames,
                                     p \in BOOLEAN, b \in BOOLEAN}
    \cup {Decl("global", n, p, st, FALSE) : n \in DeclNames, p \in BOOLEAN, st \in BOOLEAN}

\* a declaration list of the second pass, a header or a C file holds entries
\* that remember the declaration (file f, position i) they were made from
Mangled(name) == moduleName \o <<"_", name>>
Unmangled(name) == <<name>>

Item(form, text, f, i) == [form |-> form, text |-> text, decl |-> <<f, i>>]

\* the value of every enum body of the model is { a }
EnumBodyValues == {<<"a">>}

\* codegen.go:662-688 for one enum: the entries it adds to enumValues
extractEnumValues(enumName, enumValues) ==
    [v \in DOMAIN enumValues \cup EnumBodyValues |->
        IF v \in EnumBodyValues THEN moduleName \o <<"_", enumName, "_">> \o v
        ELSE enumValues[v]]

\* a Go map assignment m[k] = v
MapPut(m, k, v) == [x \in DOMAIN m \cup {k} |-> IF x = k THEN v ELSE m[x]]

EmptyCgMaps == [typeNames |-> {}, enumValues |-> <<>>, globalVars |-> <<>>, defines |-> <<>>]

\* codegen.go:29-44, the first pass over one declaration
collectDecl(m, decl) ==
    IF decl.kind = "struct" THEN [m EXCEPT !.typeNames = @ \cup {decl.name}]
    ELSE IF decl.kind = "union" THEN [m EXCEPT !.typeNames = @ \cup {decl.name}]
    ELSE IF decl.kind = "enum"
    THEN [m EXCEPT !.typeNames = @ \cup {decl.name},
                   !.enumValues = extractEnumValues(decl.name, @)]
    ELSE IF decl.kind = "global" /\ ~decl.static
    THEN [m EXCEPT !.globalVars = MapPut(@, <<decl.name>>, Mangled(decl.name))]
    ELSE IF decl.kind = "define" /\ decl.public
    THEN [m EXCEPT !.defines = MapPut(@, <<decl.name>>, Mangled(decl.name))]
    ELSE m

\* the declarations of all files in the order of the two loops (files, then
\* declarations), as <<f, i>> positions
RECURSIVE positionsFrom(_, _)
positionsFrom(fs, f) ==
    IF f > Len(fs) THEN <<>>
    ELSE [i \in 1..Len(fs[f]) |-> <<f, i>>] \o positionsFrom(fs, f + 1)

positions(fs) == positionsFrom(fs, 1)

\* codegen.go:27-46
RECURSIVE firstPass(_, _, _)
firstPass(fs, pos, m) ==
    IF pos = <<>> THEN m
    ELSE firstPass(fs, Tail(pos), collectDecl(m, fs[Head(pos)[1]][Head(pos)[2]]))

EmptyLists ==
    [publicFuncDecls |-> <<>>, privateFuncDecls |-> <<>>,
     publicTypeDecls |-> <<>>, privateTypeDecls |-> <<>>,
     publicGlobalDecls |-> <<>>, privateGlobalDecls |-> <<>>,
     publicDefineDecls |-> <<>>, privateDefineDecls |-> <<>>]

\* an entry of a declaration list: the declaration and where it came from
Entry(decl, f, i) == [d |-> decl, decl |-> <<f, i>>]

\* codegen.go:66-70
classifyFunc(l, decl, e) ==
    IF decl.public THEN [l EXCEPT !.publicFuncDecls = Append(@, e)]
    ELSE [l EXCEPT !.privateFuncDecls = Append(@, e)]

\* codegen.go:81-85, 96-100, 111-115, 123-127
classifyType(l, decl, e) ==
    IF decl.public THEN [l EXCEPT !.publicTypeDecls = Append(@, e)]
    ELSE [l EXCEPT !.privateTypeDecls = Append(@, e)]

\* a classification that ignores the Static flag
classifyGlobalIgnoringStatic(l, decl, e) ==
    IF decl.public THEN [l EXCEPT !.publicGlobalDecls = Append(@, e)]
    ELSE [l EXCEPT !.privateGlobalDecls = Append(@, e)]

\* codegen.go:137-144
classifyGlobal(l, decl, e) ==
    IF decl.static THEN l
    ELSE IF decl.public THEN [l EXCEPT !.publicGlobalDecls = Append(@, e)]
    ELSE [l EXCEPT !.privateGlobalDecls = Append(@, e)]

\* codegen.go:152-156
classifyDefine(l, decl, e) ==
    IF decl.public THEN [l EXCEPT !.publicDefineDecls = Append(@, e)]
    ELSE [l EXCEPT !.privateDefineDecls = Append(@, e)]

\* codegen.go:60-157, the second pass over one declaration
classifyDecl(l, decl, f, i) ==
    LET e == Entry(decl, f, i) IN
    IF decl.kind = "func" THEN classifyFunc(l, decl, e)
    ELSE IF decl.kind \in TypeKinds THEN classifyType(l, decl, e)
    ELSE IF decl.kind = "global" THEN classifyGlobal(l, decl, e)
    ELSE classifyDefine(l, decl, e)

\* codegen.go:58-159
RECURSIVE secondPass(_, _, _)
secondPass(fs, pos, l) ==
    IF pos = <<>> THEN l
    ELSE secondPass(fs, Tail(pos),
                    classifyDecl(l, fs[Head(pos)[1]][Head(pos)[2]], Head(pos)[1], Head(pos)[2]))

\* an item of a generated file that comes from no declaration
Fixed(form, text) == Item(form, text, 0, 0)

\* file.Imports and file.CImports: the first file imports module "u/a" and
\* the C header "a.h", the other files import nothing
FileImports(f) == IF f = 1 THEN <<<<"u", "/", "a">>>> ELSE <<>>
FileCImports(f) == IF f = 1 THEN <<<<"a", ".", "h">>>> ELSE <<>>

\* codegen.go:162-167, allImports as the sequence the range loop of
\* generatePublicHeader visits (one import at most: one order)
allImports(fs) == Flatten([f \in 1..Len(fs) |-> FileImports(f)])

\* codegen.go:470-521, the name part of the signature
generateFunctionSignature(name) ==
    IF name = "main" THEN Unmangled(name) ELSE Mangled(name)

\* codegen.go:254-260 and 326-332
forwardDeclarations(types) ==
    LET braced == SelectSeq(types, LAMBDA e : e.d.kind \in {"struct", "union"} /\ e.d.braced)
    IN [j \in 1..Len(braced) |->
           Item("forward", Mangled(braced[j].d.name), braced[j].decl[1], braced[j].decl[2])]

\* codegen.go:599-636
generateTypeDeclaration(e) ==
    IF e.d.kind = "typedef" THEN Item("typedecl", Unmangled(e.d.name), e.decl[1], e.decl[2])
    ELSE Item("typedecl", Mangled(e.d.name), e.decl[1], e.decl[2])

typeDeclarations(types) == [j \in 1..Len(types) |-> generateTypeDeclaration(types[j])]

\* codegen.go:272-278 and 344-350
externDeclarations(globals) ==
    [j \in 1..Len(globals) |->
        Item("extern", Mangled(globals[j].d.name), globals[j].decl[1], globals[j].decl[2])]

\* codegen.go:281-287 and 353-359
prototypes(funcs) ==
    [j \in 1..Len(funcs) |->
        Item("prototype", generateFunctionSignature(funcs[j].d.name),
             funcs[j].decl[1], funcs[j].decl[2])]

\* codegen.go:223-298, the content written to <module>.h
generatePublicHeader(l, imports) ==
    <<Fixed("guard", moduleName \o <<"_", "H">>)>>
    \o [j \in 1..Len(imports) |-> Fixed("include", SanitizeModuleName(imports[j]) \o <<".", "h">>)]
    \o [j \in 1..Len(l.publicDefineDecls) |->
           Item("define", Mangled(l.publicDefineDecls[j].d.name),
                l.publicDefineDecls[j].decl[1], l.publicDefineDecls[j].decl[2])]
    \o forwardDeclarations(l.publicTypeDecls)
    \o typeDeclarations(l.publicTypeDecls)
    \o externDeclarations(l.publicGlobalDecls)
    \o prototypes(l.publicFuncDecls)
    \o <<Fixed("endif", <<>>)>>

\* codegen.go:301-370, the content written to <module>_internal.h
generateInternalHeader(l) ==
    <<Fixed("guard", moduleName \o <<"_", "INTERNAL", "_", "H">>),
      Fixed("include", moduleName \o <<".", "h">>)>>
    \o [j \in 1..Len(l.privateDefineDecls) |->
           Item("define", Unmangled(l.privateDefineDecls[j].d.name),
                l.privateDefineDecls[j].decl[1], l.privateDefineDecls[j].decl[2])]
    \o forwardDeclarations(l.privateTypeDecls)
    \o typeDeclarations(l.privateTypeDecls)
    \o externDeclarations(l.privateGlobalDecls)
    \o prototypes(l.privateFuncDecls)
    \o <<Fixed("endif", <<>>)>>

\* codegen.go:440-467, the keyword and the name of the definition
generateGlobalDefinition(g) ==
    IF g.static THEN <<"static">> \o Unmangled(g.name) ELSE Mangled(g.name)

\* codegen.go:409-419 for the declaration at position i of file f
globalDefinition(fs, f, i) ==
    IF fs[f][i].kind = "global"
    THEN <<Item("line", <<>>, f, i), Item("globaldef", generateGlobalDefinition(fs[f][i]), f, i)>>
    ELSE <<>>

\* codegen.go:422-428 and 639-657 for the declaration at position i of file f
functionImplementation(fs, f, i) ==
    IF fs[f][i].kind = "func"
    THEN <<Item("line", <<>>, f, i),
           Item("funcimpl", generateFunctionSignature(fs[f][i].name), f, i)>>
    ELSE <<>>

\* codegen.go:373-437, the path and the content of the C file of file f
generateCFile(fs, f) ==
    [path |-> [module |-> moduleName, base |-> f],
     items |->
        <<Fixed("include", moduleName \o <<"_", "internal", ".", "h">>)>>
        \o [j \in 1..Len(FileCImports(f)) |-> Fixed("cinclude", FileCImports(f)[j])]
        \o [j \in 1..Len(FileImports(f)) |->
               Fixed("include", SanitizeModuleName(FileImports(f)[j]) \o <<".", "h">>)]
        \o Flatten([i \in 1..Len(fs[f]) |-> globalDefinition(fs, f, i)])
        \o Flatten([i \in 1..Len(fs[f]) |-> functionImplementation(fs, f, i)])]

\* ---- GenerateModule as a state machine ----
DeclSeqs == UNION {[1..n -> Decls] : n \in 0..MaxDecls}

\* the declarations of a module spread over its files, in order
FileSplits(n) == {fo \in [1..n -> 1..MaxFiles] : \A i, j \in 1..n : i <= j => fo[i] <= fo[j]}

filesOf(ds, fo) ==
    [f \in 1..MaxFiles |->
        LET idx == {i \in 1..Len(ds) : fo[i] = f}
            lo == IF idx = {} THEN 1 ELSE CHOOSE i \in idx : \A j \in idx : i <= j
        IN [k \in 1..Cardinality(idx) |-> ds[lo + k - 1]]]

CgStart ==
    /\ \E ds \in DeclSeqs : \E fo \in FileSplits(Len(ds)) : files = filesOf(ds, fo)
    /\ cg_maps = EmptyCgMaps
    /\ cg_lists = EmptyLists
    /\ publicHeader = <<>>
    /\ internalHeader = <<>>
    /\ cFilesOut = <<>>
    /\ cg_pc = "firstPass"

\* codegen.go:17-46
GenerateModule_FirstPass ==
    /\ cg_pc = "firstPass"
    /\ cg_maps' = firstPass(files, positions(files), EmptyCgMaps)
    /\ cg_pc' = "secondPass"
    /\ UNCHANGED <<files, cg_lists, publicHeader, internalHeader, cFilesOut>>
    /\ UNCHANGED notCg

\* codegen.go:48-167
GenerateModule_SecondPass ==
    /\ cg_pc = "secondPass"
    /\ cg_lists' = secondPass(files, positions(files), EmptyLists)
    /\ cg_pc' = "publicHeader"
    /\ UNCHANGED <<files, cg_maps, publicHeader, internalHeader, cFilesOut>>
    /\ UNCHANGED notCg

\* codegen.go:170-172 with os.WriteFile succeeding
GenerateModule_PublicHeader ==
    /\ cg_pc = "publicHeader"
    /\ publicHeader' = generatePublicHeader(cg_lists, allImports(files))
    /\ cg_pc' = "internalHeader"
    /\ UNCHANGED <<files, cg_maps, cg_lists, internalHeader, cFilesOut>>
    /\ UNCHANGED notCg

\* codegen.go:175-177 with os.WriteFile succeeding
GenerateModule_InternalHeader ==
    /\ cg_pc = "internalHeader"
    /\ internalHeader' = generateInternalHeader(cg_lists)
    /\ cg_pc' = "cFiles"
    /\ UNCHANGED <<files, cg_maps, cg_lists, publicHeader, cFilesOut>>
    /\ UNCHANGED notCg

\* codegen.go:180-184, one iteration with os.WriteFile succeeding
GenerateModule_CFile ==
    /\ cg_pc = "cFiles"
    /\ Len(cFilesOut) < Len(files)
    /\ cFilesOut' = Append(cFilesOut, generateCFile(files, Len(cFilesOut) + 1))
    /\ UNCHANGED <<files, cg_maps, cg_lists, publicHeader, internalHeader, cg_pc>>
    /\ UNCHANGED notCg

\* codegen.go:186
GenerateModule_Return ==
    /\ cg_pc = "cFiles"
    /\ Len(cFilesOut) = Len(files)
    /\ cg_pc' = "done"
    /\ UNCHANGED <<files, cg_maps, cg_lists, publicHeader, internalHeader, cFilesOut>>
    /\ UNCHANGED notCg

\* codegen.go:171, 176, 182: os.WriteFile fails, GenerateModule returns the error
GenerateModule_WriteError ==
    /\ \/ cg_pc \in {"publicHeader", "internalHeader"}
       \/ cg_pc = "cFiles" /\ Len(cFilesOut) < Len(files)
    /\ cg_pc' = "error"
    /\ UNCHANGED <<files, cg_maps, cg_lists, publicHeader, internalHeader, cFilesOut>>
    /\ UNCHANGED notCg

CgNext ==
    \/ GenerateModule_FirstPass
    \/ GenerateModule_SecondPass
    \/ GenerateModule_PublicHeader
    \/ GenerateModule_InternalHeader
    \/ GenerateModule_CFile
    \/ GenerateModule_Return
    \/ GenerateModule_WriteError

CgInit == CgStart /\ CycIdle /\ LmIdle /\ TrIdle /\ CmpIdle /\ LspIdle /\ BtIdle /\ BldIdle /\ PxIdle /\ RnIdle /\ LcIdle /\ LkIdle /\ DgIdle /\ QnIdle /\ PtIdle

SpecCodegen == CgInit /\ [][CgNext]_vars

\* ---- claims about the code generator ----
DeclPositions == {<<f, i>> : f \in 1..Len(files), i \in 1..MaxDecls} \cap
                 {pos \in (1..MaxFiles) \X (1..MaxDecls) : pos[2] <= Len(files[pos[1]])}

declAt(pos) == files[pos[1]][pos[2]]

\* the items of a generated file made from the declaration at pos
ItemsOf(items, pos) == {j \in 1..Len(items) : items[j].decl = pos}

IsPrivateFuncOrType(pos) ==
    /\ declAt(pos).kind \in {"func"} \cup TypeKinds
    /\ ~declAt(pos).public

IsStaticGlobal(pos) == declAt(pos).kind = "global" /\ declAt(pos).static

\* C10: a private function or type is never declared in the public header
\* and, once the internal header is written, is declared there; a static
\* global is declared in neither header, and the C file of its source file,
\* once written, holds its definition with the keyword static and the
\* unmangled name, and no other C file holds anything made from it.
C10_VisibilityPartition ==
    \A pos \in DeclPositions :
        /\ IsPrivateFuncOrType(pos) =>
              /\ ItemsOf(publicHeader, pos) = {}
              /\ internalHeader # <<>> =>
                    \E j \in ItemsOf(internalHeader, pos) :
                        internalHeader[j].form \in {"prototype", "typedecl"}
        /\ IsStaticGlobal(pos) =>
              /\ ItemsOf(publicHeader, pos) = {}
              /\ ItemsOf(internalHeader, pos) = {}
              /\ \A f \in 1..Len(cFilesOut) :
                    IF f = pos[1]
                    THEN \E j \in ItemsOf(cFilesOut[f].items, pos) :
                            /\ cFilesOut[f].items[j].form = "globaldef"
                            /\ cFilesOut[f].items[j].text = <<"static", declAt(pos).name>>
                    ELSE ItemsOf(cFilesOut[f].items, pos) = {}

\* GenerateModule returned nil for a module with a private function, a
\* private type and a static global
C10_Witness ==
    /\ cg_pc = "done"
    /\ \E p1, p2, p3 \in DeclPositions :
          /\ declAt(p1).kind = "func" /\ ~declAt(p1).public
          /\ declAt(p2).kind \in TypeKinds /\ ~declAt(p2).public
          /\ IsStaticGlobal(p3)
          /\ p3[1] = 2

(***************************************************************************)
(* Component H: CM-native completion (internal/lsp/jsonrpc.go, symbols.go) *)
(***************************************************************************)
\* ---- strings as sequences of bytes ----
S_import == <<"i", "m", "p", "o", "r", "t">>
S_cimport == <<"c">> \o S_import
S_module == <<"m", "o", "d", "u", "l", "e">>
S_importQuote == S_import \o <<" ", "\"">>
Quoted(str) == <<"\"">> \o str \o <<"\"">>

\* strings.HasPrefix, and hasPrefix of symbols.go:289-294
HasPrefix(str, prefix) ==
    Len(str) >= Len(prefix) /\ SubSeq(str, 1, Len(prefix)) = prefix

\* module_index.go:177-185, 0-based, -1 when the needle is absent
indexOfSubstring(haystack, needle) ==
    LET hits == {i \in 0..(Len(haystack) - Len(needle)) :
                    SubSeq(haystack, i + 1, i + Len(needle)) = needle}
    IN IF hits = {} THEN -1 ELSE CHOOSE i \in hits : \A j \in hits : i <= j

\* strings.Split(s, "\n")
RECURSIVE SplitLinesFrom(_, _, _)
SplitLinesFrom(str, i, cur) ==
    IF i > Len(str) THEN <<cur>>
    ELSE IF str[i] = "\n" THEN <<cur>> \o SplitLinesFrom(str, i + 1, <<>>)
    ELSE SplitLinesFrom(str, i + 1, Append(cur, str[i]))

\* module_index.go:141-146
trimCR(str) ==
    IF Len(str) > 0 /\ str[Len(str)] = "\r" THEN SubSeq(str, 1, Len(str) - 1) ELSE str

\* module_index.go:126-139
splitLinesPreserve(str) ==
    LET ls == SplitLinesFrom(str, 1, <<>>) IN [j \in 1..Len(ls) |-> trimCR(ls[j])]

\* strings.TrimSpace and trimSpaces of symbols.go:277-287 for the white space
\* of the model (blank, tab, carriage return)
Blank == {" ", "\t", "\r"}

RECURSIVE TrimLeft(_)
TrimLeft(str) == IF str # <<>> /\ Head(str) \in Blank THEN TrimLeft(Tail(str)) ELSE str

RECURSIVE TrimRight(_)
TrimRight(str) ==
    IF str # <<>> /\ str[Len(str)] \in Blank THEN TrimRight(SubSeq(str, 1, Len(str) - 1)) ELSE str

TrimSpace(str) == TrimRight(TrimLeft(str))

\* strings.Fields
RECURSIVE FieldsFrom(_, _, _)
FieldsFrom(str, i, cur) ==
    IF i > Len(str) THEN (IF cur = <<>> THEN <<>> ELSE <<cur>>)
    ELSE IF str[i] \in Blank
         THEN (IF cur = <<>> THEN <<>> ELSE <<cur>>) \o FieldsFrom(str, i + 1, <<>>)
         ELSE FieldsFrom(str, i + 1, Append(cur, str[i]))

Fields(str) == FieldsFrom(str, 1, <<>>)

\* strings.Trim(s, `"`)
RECURSIVE TrimQuotes(_)
TrimQuotes(str) ==
    IF str # <<>> /\ Head(str) = "\"" THEN TrimQuotes(Tail(str))
    ELSE IF str # <<>> /\ str[Len(str)] = "\"" THEN TrimQuotes(SubSeq(str, 1, Len(str) - 1))
    ELSE str

\* module_index.go:187-189 for the bytes of the model
isIdentChar(b) ==
    b \in {"m", "n", "s", "i", "p", "o", "r", "t", "d", "u", "l", "e", "c", "_"}
           \cup Letters \cup Digits

\* module_index.go:208-225, the name only
lastIdentifier(line) ==
    LET ends == {i \in 1..Len(line) : isIdentChar(line[i])}
    IN IF ends = {} THEN <<>>
       ELSE LET end == CHOOSE i \in ends : \A j \in ends : j <= i
                starts == {i \in 1..end : \A j \in i..end : isIdentChar(line[j])}
                start == CHOOSE i \in starts : \A j \in starts : i <= j
            IN SubSeq(line, start, end)

\* project.go:33-45
ImportPrefix(importPath) ==
    LET slashes == {i \in 1..Len(importPath) : importPath[i] = "/"}
        last == IF slashes = {} THEN importPath
                ELSE SubSeq(importPath, (CHOOSE i \in slashes : \A j \in slashes : j <= i) + 1,
                            Len(importPath))
    IN IF last = <<>> THEN importPath ELSE last

\* ---- the parser's first phase (parser: manualParse) ----
\* the Import paths of the file in order, and whether a module line was seen
RECURSIVE parseImports(_)
parseImports(lines) ==
    IF lines = <<>> THEN <<>>
    ELSE LET line == TrimSpace(Head(lines))
             parts == Fields(line)
         IN (IF ~HasPrefix(line, S_cimport) /\ HasPrefix(line, S_import) /\ Len(parts) >= 2
             THEN <<TrimQuotes(parts[2])>> ELSE <<>>)
            \o parseImports(Tail(lines))

hasModuleDecl(lines) ==
    \E j \in 1..Len(lines) :
        /\ HasPrefix(TrimSpace(lines[j]), S_module)
        /\ Len(Fields(TrimSpace(lines[j]))) >= 2

\* manualParse: ok is FALSE when the error "no module declaration found" is
\* returned; the lines of the model raise no error in the second phase
manualParse(source) ==
    LET lines == SplitLinesFrom(source, 1, <<>>)
    IN IF hasModuleDecl(lines) THEN [ok |-> TRUE, Imports |-> parseImports(lines)]
       ELSE [ok |-> FALSE, Imports |-> <<>>]

\* symbols.go:209-214 and 226-231: out[prefix] = p for every import in order
RECURSIVE prefixMap(_, _)
prefixMap(imports, out) ==
    IF imports = <<>> THEN out
    ELSE prefixMap(Tail(imports), MapPut(out, ImportPrefix(Head(imports)), Head(imports)))

\* symbols.go:219-232
importedModulePrefixesFromText(text) ==
    LET pf == manualParse(text) IN IF ~pf.ok THEN <<>> ELSE prefixMap(pf.Imports, <<>>)

\* symbols.go:202-215
importedModulePrefixesFromFile(file) ==
    IF ~file.exists THEN <<>>
    ELSE LET pf == manualParse(file.text) IN IF ~pf.ok THEN <<>> ELSE prefixMap(pf.Imports, <<>>)

\* symbols.go:253-271 for the lines from the first on
RECURSIVE fallbackFrom(_, _)
fallbackFrom(lines, out) ==
    IF lines = <<>> THEN out
    ELSE LET line == TrimRight(TrimLeft(Head(lines)))
             rest == SubSeq(line, Len(S_importQuote) + 1, Len(line))
             end == indexOfSubstring(rest, <<"\"">>)
         IN IF Len(line) < 10 \/ ~HasPrefix(line, S_importQuote) \/ end < 0
            THEN fallbackFrom(Tail(lines), out)
            ELSE fallbackFrom(Tail(lines),
                              MapPut(out, ImportPrefix(SubSeq(rest, 1, end)), SubSeq(rest, 1, end)))

\* symbols.go:250-275
importedModulePrefixesFallback(text) == fallbackFrom(splitLinesPreserve(text), <<>>)

\* symbols.go:236-248
importedModulePrefixes(file, text) ==
    LET fromText == IF text # <<>> THEN importedModulePrefixesFromText(text) ELSE <<>>
        fromFile == IF DOMAIN fromText # {} THEN fromText
                    ELSE importedModulePrefixesFromFile(file)
    IN IF DOMAIN fromFile # {} THEN fromFile ELSE importedModulePrefixesFallback(text)

NoContext == [InImportString |-> FALSE, MemberModule |-> <<>>]

\* jsonrpc.go:121-154
completionContext(text, line0, char0) ==
    LET lines == splitLinesPreserve(text) IN
    IF line0 < 0 \/ line0 >= Len(lines) THEN NoContext
    ELSE LET line == lines[line0 + 1]
             c0 == IF char0 < 0 THEN 0 ELSE IF char0 > Len(line) THEN Len(line) ELSE char0
             prefix == SubSeq(line, 1, c0)
             idx == indexOfSubstring(prefix, S_importQuote)
             after == SubSeq(prefix, idx + Len(S_importQuote) + 1, Len(prefix))
         IN IF idx >= 0 /\ indexOfSubstring(after, <<"\"">>) < 0
            THEN [InImportString |-> TRUE, MemberModule |-> <<>>]
            ELSE IF Len(prefix) > 0 /\ prefix[Len(prefix)] = "." 
                    /\ lastIdentifier(SubSeq(prefix, 1, Len(prefix) - 1)) # <<>>
            THEN [InImportString |-> FALSE,
                  MemberModule |-> lastIdentifier(SubSeq(prefix, 1, Len(prefix) - 1))]
            ELSE NoContext

\* proj.Modules of the workspace: main and the modules m and n
ProjModules == {<<"m", "a", "i", "n">>, <<"m">>, <<"n">>}

Symbol(name, kind, public) == [Name |-> name, Kind |-> kind, Public |-> public]

\* idx.Modules, built by buildModuleIndex from the files of the modules
IndexModules ==
    (<<"m">> :> <<Symbol("add", "func", TRUE), Symbol("helper", "func", FALSE),
                  Symbol("Vec", "struct", TRUE)>>)
    @@ (<<"n">> :> <<Symbol("sub", "func", TRUE)>>)
    @@ (<<"m", "a", "i", "n">> :> <<Symbol("main", "func", FALSE)>>)

\* jsonrpc.go:187-203
completionItemKind(kind) ==
    IF kind = "func" THEN 3
    ELSE IF kind \in {"struct", "union", "typedef"} THEN 22
    ELSE IF kind = "enum" THEN 13
    ELSE IF kind = "define" THEN 21
    ELSE 6

CompletionItem(label, kind) == [label |-> label, kind |-> kind, insertText |-> label]

\* jsonrpc.go:158-170: one item per module except main, in the order of a map
\* range
moduleItems(order) ==
    LET kept == SelectSeq(order, LAMBDA mp : mp # <<"m", "a", "i", "n">>)
    IN [j \in 1..Len(kept) |-> CompletionItem(kept[j], 9)]

\* jsonrpc.go:182-210; a missing key of idx.Modules reads as no symbols
memberItems(targetImportPath) ==
    LET syms == IF targetImportPath \in DOMAIN IndexModules
                THEN IndexModules[targetImportPath] ELSE <<>>
        pub == SelectSeq(syms, LAMBDA sy : sy.Public)
    IN [j \in 1..Len(pub) |-> CompletionItem(pub[j].Name, completionItemKind(pub[j].Kind))]

\* ---- the inputs ----
RECURSIVE JoinLines(_)
JoinLines(lines) ==
    IF lines = <<>> THEN <<>>
    ELSE IF Len(lines) = 1 THEN lines[1]
    ELSE lines[1] \o <<"\n">> \o JoinLines(Tail(lines))

L_module == S_module \o <<" ">> \o Quoted(<<"s">>)
L_importM == S_import \o <<" ">> \o Quoted(<<"m">>)
L_importN == S_import \o <<" ">> \o Quoted(<<"n">>)
L_member == <<" ", "m", ".">>
L_openImport == S_importQuote

BufferLines == {L_module, L_importM, L_importN, L_member, L_openImport}
DiskLines == {L_module, L_importM, L_importN}

Buffers == {JoinLines(ls) : ls \in UNION {[1..n -> BufferLines] : n \in 0..MaxBufLines}}
DiskFiles ==
    {[exists |-> FALSE, text |-> <<>>]}
    \cup {[exists |-> TRUE, text |-> JoinLines(ls)] :
             ls \in UNION {[1..n -> DiskLines] : n \in 0..MaxDiskLines}}

\* the columns a request is sent for: line start, after " m.", after `import "`
CursorChars == {0, Len(L_member), Len(L_openImport)}

CmpStart ==
    /\ cmText \in Buffers
    /\ diskFile \in DiskFiles
    /\ cursor \in (0..(MaxBufLines - 1)) \X CursorChars
    /\ cmCtx = NoContext
    /\ cmItems = <<>>
    /\ cmp_pc = "start"

\* completion_map.go:281-283 and jsonrpc.go:157: cmCompletions is entered
\* for a non-empty buffer and classifies the cursor
CmCompletions_Context ==
    /\ cmp_pc = "start"
    /\ cmText # <<>>
    /\ cmCtx' = completionContext(cmText, cursor[1], cursor[2])
    /\ cmp_pc' = "context"
    /\ UNCHANGED <<cmText, diskFile, cursor, cmItems>>
    /\ UNCHANGED notCmp

\* completion_map.go:280-283: no CM-native items for an empty buffer
CmCompletions_Skipped ==
    /\ cmp_pc = "start"
    /\ cmText = <<>>
    /\ cmItems' = <<>>
    /\ cmp_pc' = "done"
    /\ UNCHANGED <<cmText, diskFile, cursor, cmCtx>>
    /\ UNCHANGED notCmp

\* jsonrpc.go:158-171
CmCompletions_ImportString ==
    /\ cmp_pc = "context"
    /\ cmCtx.InImportString
    /\ \E order \in Perms(ProjModules) : cmItems' = moduleItems(order)
    /\ cmp_pc' = "done"
    /\ UNCHANGED <<cmText, diskFile, cursor, cmCtx>>
    /\ UNCHANGED notCmp

\* jsonrpc.go:173-211
CmCompletions_Member ==
    /\ cmp_pc = "context"
    /\ ~cmCtx.InImportString
    /\ cmCtx.MemberModule # <<>>
    /\ LET imports == importedModulePrefixes(diskFile, cmText) IN
         cmItems' = IF cmCtx.MemberModule \in DOMAIN imports
                    THEN memberItems(imports[cmCtx.MemberModule])
                    ELSE <<>>
    /\ cmp_pc' = "done"
    /\ UNCHANGED <<cmText, diskFile, cursor, cmCtx>>
    /\ UNCHANGED notCmp

\* jsonrpc.go:213
CmCompletions_None ==
    /\ cmp_pc = "context"
    /\ ~cmCtx.InImportString
    /\ cmCtx.MemberModule = <<>>
    /\ cmItems' = <<>>
    /\ cmp_pc' = "done"
    /\ UNCHANGED <<cmText, diskFile, cursor, cmCtx>>
    /\ UNCHANGED notCmp

CmpNext ==
    \/ CmCompletions_Context
    \/ CmCompletions_Skipped
    \/ CmCompletions_ImportString
    \/ CmCompletions_Member
    \/ CmCompletions_None

CmpInit == CmpStart /\ CycIdle /\ LmIdle /\ TrIdle /\ CgIdle /\ LspIdle /\ BtIdle /\ BldIdle /\ PxIdle /\ RnIdle /\ LcIdle /\ LkIdle /\ DgIdle /\ QnIdle /\ PtIdle

SpecCompletion == CmpInit /\ [][CmpNext]_vars

\* ---- claims about completion ----
\* the text of the cursor line before the cursor ends with "m."
MemberPrefixBeforeCursor ==
    LET lines == splitLinesPreserve(cmText) IN
    /\ cursor[1] < Len(lines)
    /\ cursor[2] >= 2
    /\ cursor[2] <= Len(lines[cursor[1] + 1])
    /\ SubSeq(lines[cursor[1] + 1], cursor[2] - 1, cursor[2]) = <<"m", ".">>
    /\ cursor[2] >= 3 => ~isIdentChar(lines[cursor[1] + 1][cursor[2] - 2])

\* no line of the buffer is an import of module m
BufferImportsM ==
    \E j \in 1..Len(splitLinesPreserve(cmText)) :
        TrimSpace(splitLinesPreserve(cmText)[j]) = L_importM

PublicSymbolsOfM == {IndexModules[<<"m">>][j].Name : j \in {1, 3}}

\* C7: the buffer holds "m." before the cursor and no import of module m:
\* CM-native completion returns no item labelled with a symbol of module m.
C7_NoLeakWithoutImport ==
    (cmp_pc = "done" /\ MemberPrefixBeforeCursor /\ ~BufferImportsM)
    => \A j \in 1..Len(cmItems) : cmItems[j].label \notin PublicSymbolsOfM

(***************************************************************************)
(* Component F: LSP server (internal/lsp/linemap.go:128-595, transpile.go, *)
(* clangd.go, forwardHover)                                                *)
(***************************************************************************)
\* a Go map delete(m, k)
MapDelete(m, k) == [x \in DOMAIN m \ {k} |-> m[x]]

\* The workspace: two modules of one .cm file each.  Every file is saved on
\* disk as t0; an editor buffer holds an edited text with the function one
\* line lower (t1) or a text without module line, which the parser rejects
\* (bad).
Texts == {"t1", "bad"}
DiskText(f) == "t0"
Parses(t) == t # "bad"
FuncLine(t) == IF t = "t0" THEN 1 ELSE 2

\* codegen.go:393-428: the include line, then #line and the function
GeneratedC(f, t) == <<TextLine, LineDirective(FuncLine(t), f), TextLine>>

\* transpile.go:32-36: the buffer of an open file, else the file on disk
sourceText(docs, f) == IF f \in DOMAIN docs THEN docs[f] ELSE DiskText(f)

\* transpile.go:29-56: the modules in the order of the map range; a file
\* that does not parse ends the loop with the error, after the modules
\* before it were generated
RECURSIVE transpileFrom(_, _, _)
transpileFrom(docs, order, disk) ==
    IF order = <<>> THEN [ok |-> TRUE, disk |-> disk]
    ELSE IF ~Parses(sourceText(docs, Head(order))) THEN [ok |-> FALSE, disk |-> disk]
    ELSE transpileFrom(docs, Tail(order),
                       MapPut(disk, Head(order), GeneratedC(Head(order), sourceText(docs, Head(order)))))

\* transpile.go:21-66
transpileWorkspace(docs, order, disk) == transpileFrom(docs, order, disk)

\* linemap.go:574-594: the cached mapper, else one built from the file
getLineMapperForCFile(maps, disk, f) ==
    IF f \in DOMAIN maps THEN [ok |-> TRUE, lm |-> maps[f], maps |-> maps]
    ELSE IF f \notin DOMAIN disk THEN [ok |-> FALSE, lm |-> <<>>, maps |-> maps]
    ELSE [ok |-> TRUE, lm |-> newLineMapperFromC(disk[f]),
          maps |-> MapPut(maps, f, newLineMapperFromC(disk[f]))]

Use(by, f) == [by |-> by, file |-> f]

\* linemap.go:160-166
LspStart ==
    /\ serve = "loop"
    /\ refreshing = ""
    /\ clangd = "nil"
    /\ openDocs = <<>>
    /\ openedCDocs = <<>>
    /\ lineMaps = <<>>
    /\ cFileDisk = <<>>
    /\ clangdDocs = <<>>
    /\ clangdSync = <<>>
    /\ reply = "none"
    /\ lmUse = NoUse

\* linemap.go:168-175: end of input, Serve returns nil
Serve_EndOfInput ==
    /\ serve = "loop"
    /\ serve' = "done"
    /\ reply' = "none"
    /\ lmUse' = NoUse
    /\ UNCHANGED <<refreshing, clangd, openDocs, openedCDocs, lineMaps, cFileDisk, clangdDocs>>
    /\ UNCHANGED clangdSync
    /\ UNCHANGED notLsp

\* linemap.go:169-174 with jsonrpc.go:82-84: a frame whose body is not a
\* JSON-RPC message makes readMessage fail, Serve returns the error
Serve_InvalidPayload ==
    /\ serve = "loop"
    /\ serve' = "readError"
    /\ reply' = "none"
    /\ lmUse' = NoUse
    /\ UNCHANGED <<refreshing, clangd, openDocs, openedCDocs, lineMaps, cFileDisk, clangdDocs>>
    /\ UNCHANGED clangdSync
    /\ UNCHANGED notLsp

\* linemap.go:177-180: a message without method (a response) is skipped
Serve_SkipResponse ==
    /\ serve = "loop"
    /\ reply' = "none"
    /\ lmUse' = NoUse
    /\ UNCHANGED <<serve, refreshing, clangd, openDocs, openedCDocs, lineMaps, cFileDisk,
                   clangdDocs>>
    /\ UNCHANGED clangdSync
    /\ UNCHANGED notLsp

\* linemap.go:200-249
HandleRequest_Initialize ==
    /\ serve = "loop"
    /\ \E outcome \in {"malformed", "startFails", "initializeFails", "ok"} :
          IF outcome = "malformed"
          THEN /\ reply' = "-32602"
               /\ UNCHANGED <<clangd, clangdDocs>>
          ELSE /\ clangd' = IF outcome = "startFails" THEN "unstarted" ELSE "running"
               /\ clangdDocs' = <<>>
               /\ reply' = IF outcome = "ok" THEN "result" ELSE "-32002"
    /\ lmUse' = NoUse
    /\ UNCHANGED <<serve, refreshing, openDocs, openedCDocs, lineMaps, cFileDisk>>
    /\ UNCHANGED clangdSync
    /\ UNCHANGED notLsp

\* linemap.go:251-256 with clangd.go:72-80 and 114-124
HandleRequest_Shutdown ==
    /\ serve = "loop"
    /\ IF clangd = "unstarted"
       THEN /\ serve' = "panic"
            /\ reply' = "none"
            /\ UNCHANGED clangd
       ELSE /\ clangd' = IF clangd = "nil" THEN "nil" ELSE "stopped"
            /\ reply' = "result"
            /\ UNCHANGED serve
    /\ lmUse' = NoUse
    /\ UNCHANGED <<refreshing, openDocs, openedCDocs, lineMaps, cFileDisk, clangdDocs>>
    /\ UNCHANGED clangdSync
    /\ UNCHANGED notLsp

\* linemap.go:274-277
HandleRequest_MethodNotFound ==
    /\ serve = "loop"
    /\ reply' = "-32601"
    /\ lmUse' = NoUse
    /\ UNCHANGED <<serve, refreshing, clangd, openDocs, openedCDocs, lineMaps, cFileDisk,
                   clangdDocs>>
    /\ UNCHANGED clangdSync
    /\ UNCHANGED notLsp

\* forwardHover, part_006:13-104
ForwardHover ==
    /\ serve = "loop"
    /\ \E f \in CmFiles, malformed \in BOOLEAN, native \in BOOLEAN, timeout \in BOOLEAN :
          LET got == getLineMapperForCFile(lineMaps, cFileDisk, f) IN
          IF malformed
          THEN /\ reply' = "-32602"
               /\ lmUse' = NoUse
               /\ UNCHANGED <<serve, lineMaps>>
          ELSE IF f \in DOMAIN openDocs /\ native
          THEN /\ reply' = "result"
               /\ lmUse' = NoUse
               /\ UNCHANGED <<serve, lineMaps>>
          ELSE IF ~got.ok
          THEN /\ reply' = "-32002"
               /\ lmUse' = NoUse
               /\ UNCHANGED <<serve, lineMaps>>
          ELSE /\ lineMaps' = got.maps
               /\ IF clangd \in {"nil", "unstarted"}
                  THEN serve' = "panic" /\ reply' = "none" /\ lmUse' = NoUse
                  ELSE IF clangd = "stopped"
                  THEN reply' = "-32002" /\ lmUse' = NoUse /\ UNCHANGED serve
                  ELSE /\ lmUse' = Use("hover", f)
                       /\ reply' = IF timeout THEN "-32002" ELSE "result"
                       /\ UNCHANGED serve
    /\ UNCHANGED <<refreshing, clangd, openDocs, openedCDocs, cFileDisk, clangdDocs>>
    /\ UNCHANGED clangdSync
    /\ UNCHANGED notLsp

\* linemap.go:282-283: exit returns io.EOF, Serve returns nil
HandleNotification_Exit ==
    /\ serve = "loop"
    /\ serve' = "done"
    /\ reply' = "none"
    /\ lmUse' = NoUse
    /\ UNCHANGED <<refreshing, clangd, openDocs, openedCDocs, lineMaps, cFileDisk, clangdDocs>>
    /\ UNCHANGED clangdSync
    /\ UNCHANGED notLsp

\* linemap.go:285-286 and 372: initialized, and methods without a case
HandleNotification_Ignored ==
    /\ serve = "loop"
    /\ reply' = "none"
    /\ lmUse' = NoUse
    /\ UNCHANGED <<serve, refreshing, clangd, openDocs, openedCDocs, lineMaps, cFileDisk,
                   clangdDocs>>
    /\ UNCHANGED clangdSync
    /\ UNCHANGED notLsp

\* linemap.go:375-391: the first half of refreshFile for file f with the
\* buffers docs: the transpile; on failure a diagnostic is published
refreshFile_Transpile(f, docs) ==
    \E order \in Perms(CmFiles) :
        LET res == transpileWorkspace(docs, order, cFileDisk) IN
        /\ cFileDisk' = res.disk
        /\ IF res.ok
           THEN serve' = "refresh" /\ refreshing' = f /\ reply' = "none"
           ELSE reply' = "diagnostic" /\ UNCHANGED <<serve, refreshing>>

\* the version refreshFile would write stays within the bound
VersionInBound(f) == f \in DOMAIN openedCDocs => openedCDocs[f] < MaxVersion

\* linemap.go:288-310
HandleNotification_DidOpen ==
    /\ serve = "loop"
    /\ \E f \in CmFiles, t \in Texts, malformed \in BOOLEAN :
          /\ VersionInBound(f)
          /\ IF malformed
             THEN /\ serve' = "error"
                  /\ reply' = "none"
                  /\ UNCHANGED <<refreshing, openDocs, cFileDisk>>
             ELSE /\ openDocs' = MapPut(openDocs, f, t)
                  /\ refreshFile_Transpile(f, openDocs')
    /\ lmUse' = NoUse
    /\ UNCHANGED <<clangd, openedCDocs, lineMaps, clangdDocs>>
    /\ UNCHANGED clangdSync
    /\ UNCHANGED notLsp

\* linemap.go:312-341
HandleNotification_DidChange ==
    /\ serve = "loop"
    /\ \E f \in CmFiles, t \in Texts, params \in {"malformed", "noChanges", "ok"} :
          /\ VersionInBound(f)
          /\ IF params = "malformed"
             THEN /\ serve' = "error"
                  /\ reply' = "none"
                  /\ UNCHANGED <<refreshing, openDocs, cFileDisk>>
             ELSE IF params = "noChanges"
             THEN /\ reply' = "none"
                  /\ UNCHANGED <<serve, refreshing, openDocs, cFileDisk>>
             ELSE /\ openDocs' = MapPut(openDocs, f, t)
                  /\ refreshFile_Transpile(f, openDocs')
    /\ lmUse' = NoUse
    /\ UNCHANGED <<clangd, openedCDocs, lineMaps, clangdDocs>>
    /\ UNCHANGED clangdSync
    /\ UNCHANGED notLsp

\* linemap.go:343-369
HandleNotification_DidClose ==
    /\ serve = "loop"
    /\ \E f \in CmFiles, malformed \in BOOLEAN :
          IF malformed
          THEN /\ serve' = "error"
               /\ reply' = "none"
               /\ UNCHANGED openDocs
          ELSE /\ openDocs' = MapDelete(openDocs, f)
               /\ reply' = "diagnostic"
               /\ UNCHANGED serve
    /\ lmUse' = NoUse
    /\ UNCHANGED <<refreshing, clangd, openedCDocs, lineMaps, cFileDisk, clangdDocs>>
    /\ UNCHANGED clangdSync
    /\ UNCHANGED notLsp

\* linemap.go:393-451: the second half of refreshFile
RefreshFile_Finish ==
    /\ serve = "refresh"
    /\ LET f == refreshing
           alreadyOpen == f \in DOMAIN openedCDocs
       IN /\ lineMaps' = MapDelete(lineMaps, f)
          /\ openedCDocs' = MapPut(openedCDocs, f, IF alreadyOpen THEN openedCDocs[f] + 1 ELSE 1)
          /\ IF clangd \in {"nil", "unstarted"}
             THEN serve' = "panic" /\ UNCHANGED clangdDocs
             ELSE IF clangd = "stopped"
             THEN /\ serve' = IF alreadyOpen THEN "error" ELSE "loop"
                  /\ UNCHANGED clangdDocs
             ELSE /\ clangdDocs' = MapPut(clangdDocs, f, cFileDisk[f])
                  /\ serve' = "loop"
          /\ clangdSync' =
                IF clangd = "running"
                THEN MapPut(clangdSync, f,
                            Append(IF f \in DOMAIN clangdSync THEN clangdSync[f] ELSE <<>>,
                                   [kind |-> IF alreadyOpen THEN "didChange" ELSE "didOpen",
                                    version |-> openedCDocs'[f]]))
                ELSE clangdSync
    /\ refreshing' = ""
    /\ reply' = "diagnostic"
    /\ lmUse' = NoUse
    /\ UNCHANGED <<clangd, openDocs, cFileDisk>>
    /\ UNCHANGED notLsp

\* linemap.go:504-572 on the clangd read loop (clangd.go:82-112): clangd
\* publishes diagnostics for a C file it holds, the server maps them with
\* the file's lineMapper and publishes them to the client
OnClangdNotification ==
    /\ serve \in {"loop", "refresh"}
    /\ clangd = "running"
    /\ \E f \in DOMAIN clangdDocs :
          LET got == getLineMapperForCFile(lineMaps, cFileDisk, f) IN
          /\ got.ok
          /\ lineMaps' = got.maps
          /\ lmUse' = Use("diagnostic", f)
    /\ reply' = "diagnostic"
    /\ UNCHANGED <<serve, refreshing, clangd, openDocs, openedCDocs, cFileDisk, clangdDocs>>
    /\ UNCHANGED clangdSync
    /\ UNCHANGED notLsp

LspNext ==
    \/ Serve_EndOfInput
    \/ Serve_InvalidPayload
    \/ Serve_SkipResponse
    \/ HandleRequest_Initialize
    \/ HandleRequest_Shutdown
    \/ HandleRequest_MethodNotFound
    \/ ForwardHover
    \/ HandleNotification_Exit
    \/ HandleNotification_Ignored
    \/ HandleNotification_DidOpen
    \/ HandleNotification_DidChange
    \/ HandleNotification_DidClose
    \/ RefreshFile_Finish
    \/ OnClangdNotification

LspInit == LspStart /\ CycIdle /\ LmIdle /\ TrIdle /\ CgIdle /\ CmpIdle /\ BtIdle /\ BldIdle /\ PxIdle /\ RnIdle /\ LcIdle /\ LkIdle /\ DgIdle /\ QnIdle /\ PtIdle

SpecLsp == LspInit /\ [][LspNext]_vars

\* C3: no request or notification of the client ends the main loop other
\* than exit; one with malformed parameters or a failing handler is answered
\* with at most an error response and the server reads on.  (The loop ends
\* by returning nil, or with the error of readMessage on a broken frame.)
C3_MainLoopSurvives == serve \notin {"error", "panic"}

\* C4: when a hover on an open file whose buffer parses is forwarded to
\* clangd, clangd holds the C text generated from that buffer, and the
\* lineMapper that translates the position was built from that C text.
C4_RefreshBeforeForward ==
    (/\ lmUse.by = "hover"
     /\ lmUse.file \in DOMAIN openDocs
     /\ Parses(openDocs[lmUse.file]))
    => LET f == lmUse.file
           c == GeneratedC(f, openDocs[f])
       IN /\ f \in DOMAIN clangdDocs
          /\ clangdDocs[f] = c
          /\ lineMaps[f] = newLineMapperFromC(c)

\* C5: a lineMapper taken from the lineMaps cache to map a diagnostic or a
\* forwarded request of a generated C file equals the mapper derived from
\* the current content of that file.
C5_CachedMapperCurrent ==
    lmUse.by # "none"
    => lineMaps[lmUse.file] = newLineMapperFromC(cFileDisk[lmUse.file])

\* the notifications written to clangd for one C file: one didOpen with
\* version 1, then didChange with versions 2, 3, ...
WellVersioned(q) ==
    \A i \in 1..Len(q) :
        /\ q[i].version = i
        /\ q[i].kind = IF i = 1 THEN "didOpen" ELSE "didChange"

\* the version stored for a C file stays or grows in every step
VersionsNeverDecrease ==
    \A f \in DOMAIN openedCDocs :
        f \in DOMAIN openedCDocs' /\ openedCDocs'[f] >= openedCDocs[f]

\* C13: for each generated C file the text synchronisation sent to clangd is
\* one didOpen with version 1 followed only by didChange with versions that
\* grow by exactly 1, and the version in openedCDocs never decreases.
C13_SyncVersions ==
    /\ [](\A f \in DOMAIN clangdSync : WellVersioned(clangdSync[f]))
    /\ [][VersionsNeverDecrease]_vars

(***************************************************************************)
(* Component B: build tags (internal/project/project.go:343-399)           *)
(***************************************************************************)
\* project.go:384, 389: the tags the code knows as operating systems and
\* as architectures
KnownOS == {"linux", "darwin", "windows", "freebsd", "openbsd", "netbsd"}
KnownArch == {"amd64", "arm64", "arm", "386", "mips", "mips64", "ppc64", "s390x"}

\* A tag is written as neg leading '!' followed by a name.
TagNames == {"linux", "amd64", "debug", "foo"}
BuildTag == [neg : 0..MaxNeg, name : TagNames]

\* matchesTag without the build mode tags
RECURSIVE matchesTagNoMode(_, _)
matchesTagNoMode(tag, ctx) ==
    IF tag.neg > 0 THEN ~matchesTagNoMode([tag EXCEPT !.neg = @ - 1], ctx)
    ELSE IF tag.name \in KnownOS THEN ctx.OS = tag.name
    ELSE IF tag.name \in KnownArch THEN ctx.Arch = tag.name
    ELSE tag.name \in ctx.Tags

\* project.go:377-399
RECURSIVE matchesTag(_, _)
matchesTag(tag, ctx) ==
    IF tag.neg > 0 THEN ~matchesTag([tag EXCEPT !.neg = @ - 1], ctx)
    ELSE IF tag.name \in KnownOS THEN ctx.OS = tag.name
    ELSE IF tag.name \in KnownArch THEN ctx.Arch = tag.name
    ELSE IF tag.name = "debug" THEN ~ctx.Release
    ELSE IF tag.name = "release" THEN ctx.Release
    ELSE tag.name \in ctx.Tags

\* project.go:366-374: the first matching tag returns true
RECURSIVE matchesOrGroup(_, _)
matchesOrGroup(tags, ctx) ==
    IF tags = <<>> THEN FALSE
    ELSE IF matchesTag(Head(tags), ctx) THEN TRUE
    ELSE matchesOrGroup(Tail(tags), ctx)

\* project.go:344-363: the first group without a match returns false
RECURSIVE matchesBuildTags(_, _)
matchesBuildTags(groups, ctx) ==
    IF groups = <<>> THEN TRUE
    ELSE IF ~matchesOrGroup(Head(groups), ctx) THEN FALSE
    ELSE matchesBuildTags(Tail(groups), ctx)

\* project.go:325-328: extractBuildTags keeps the lines with at least one tag
OrGroups == UNION {[1..n -> BuildTag] : n \in 1..MaxGroupTags}
BuildTagMatrices == UNION {[1..n -> OrGroups] : n \in 0..MaxGroups}
BuildContexts ==
    [OS : {"linux", "windows"}, Arch : {"amd64", "arm64"}, Release : BOOLEAN,
     Tags : SUBSET {"foo", "debug"}]

BtStart ==
    /\ buildTags \in BuildTagMatrices
    /\ buildCtx \in BuildContexts
    /\ bt_result = FALSE
    /\ bt_pc = "start"

\* project.go:186-195: the file is kept when matchesBuildTags returns true
MatchesBuildTags ==
    /\ bt_pc = "start"
    /\ bt_result' = matchesBuildTags(buildTags, buildCtx)
    /\ bt_pc' = "done"
    /\ UNCHANGED <<buildTags, buildCtx>>
    /\ UNCHANGED notBt

BtNext == MatchesBuildTags

BtInit == BtStart /\ CycIdle /\ LmIdle /\ TrIdle /\ CgIdle /\ CmpIdle /\ LspIdle /\ BldIdle /\ PxIdle /\ RnIdle /\ LcIdle /\ LkIdle /\ DgIdle /\ QnIdle /\ PtIdle

SpecBuildTags == BtInit /\ [][BtNext]_vars

\* whether the tag matches as the claim words it: '!' negates, a known OS or
\* architecture matches the context's, any other name matches through the tag set
ClaimedMatch(tag) ==
    LET base == IF tag.name \in KnownOS THEN buildCtx.OS = tag.name
                ELSE IF tag.name \in KnownArch THEN buildCtx.Arch = tag.name
                ELSE tag.name \in buildCtx.Tags
    IN IF tag.neg % 2 = 1 THEN ~base ELSE base

\* the same with the build mode: debug matches when the context is not a
\* release build, release when it is
ModeMatch(tag) ==
    LET base == IF tag.name \in KnownOS THEN buildCtx.OS = tag.name
                ELSE IF tag.name \in KnownArch THEN buildCtx.Arch = tag.name
                ELSE IF tag.name = "debug" THEN ~buildCtx.Release
                ELSE IF tag.name = "release" THEN buildCtx.Release
                ELSE tag.name \in buildCtx.Tags
    IN IF tag.neg % 2 = 1 THEN ~base ELSE base

FileStates == {"missing", "older", "fresh"}

\* build.go:212-231: a module needs recompiling when one of its object
\* files is missing or older than its C file
needsRecompile(fs) == \E i \in 1..Len(fs) : fs[i] # "fresh"

\* build.go:178 and 186: a send on the buffered channel sem proceeds while
\* the channel holds fewer than jobs elements
semHasRoomUnbounded(n, j) == TRUE
semHasRoom(n, j) == n < j

\* build.go:38 of cmd/c_minus/main.go and -j: the number of jobs; make
\* panics on a negative size before any task starts
BldStart ==
    /\ \E n \in 1..MaxModules :
          modFiles \in [1..n -> UNION {[1..k -> FileStates] : k \in 1..MaxModFiles}]
    /\ modFiles0 = modFiles
    /\ jobs \in 0..MaxJobs
    /\ visited = {}
    /\ task = [m \in DOMAIN modFiles |-> "none"]
    /\ taskFile = [m \in DOMAIN modFiles |-> 1]
    /\ sem = 0
    /\ invoked = {}
    /\ errCount = 0
    /\ bld_pc = "loop"

\* build.go:182-185: the range loop passes a module that is up to date
CompileModules_Skip ==
    /\ bld_pc = "loop"
    /\ \E m \in DOMAIN modFiles \ visited :
          /\ ~needsRecompile(modFiles[m])
          /\ visited' = visited \cup {m}
    /\ UNCHANGED <<modFiles, modFiles0, jobs, task, taskFile, sem, invoked, errCount, bld_pc>>
    /\ UNCHANGED notBld

\* build.go:187-197: wg.Add, the send on sem, and the go statement
CompileModules_Go ==
    /\ bld_pc = "loop"
    /\ \E m \in DOMAIN modFiles \ visited :
          /\ needsRecompile(modFiles[m])
          /\ semHasRoom(sem, jobs)
          /\ sem' = sem + 1
          /\ task' = [task EXCEPT ![m] = "running"]
          /\ visited' = visited \cup {m}
    /\ UNCHANGED <<modFiles, modFiles0, jobs, taskFile, invoked, errCount, bld_pc>>
    /\ UNCHANGED notBld

\* build.go:237-256: compileModule runs gcc for the next file of the module,
\* whatever the state of its object file; a failure returns the error
CompileModule_Gcc ==
    \E m \in DOMAIN modFiles, ok \in BOOLEAN :
        /\ task[m] = "running"
        /\ invoked' = invoked \cup {<<m, taskFile[m]>>}
        /\ IF ok
           THEN /\ modFiles' = [modFiles EXCEPT ![m][taskFile[m]] = "fresh"]
                /\ taskFile' = [taskFile EXCEPT ![m] = @ + 1]
                /\ task' = IF taskFile[m] = Len(modFiles[m])
                           THEN [task EXCEPT ![m] = "returned"] ELSE task
                /\ UNCHANGED errCount
           ELSE /\ task' = [task EXCEPT ![m] = "returned"]
                /\ errCount' = errCount + 1
                /\ UNCHANGED <<modFiles, taskFile>>
        /\ UNCHANGED <<modFiles0, jobs, visited, sem, bld_pc>>
        /\ UNCHANGED notBld

\* build.go:190-191: the deferred receive from sem and wg.Done
CompileModules_Release ==
    /\ \E m \in DOMAIN modFiles :
          /\ task[m] = "returned"
          /\ task' = [task EXCEPT ![m] = "done"]
          /\ sem' = sem - 1
    /\ UNCHANGED <<modFiles, modFiles0, jobs, visited, taskFile, invoked, errCount, bld_pc>>
    /\ UNCHANGED notBld

\* build.go:183 and 200: the range loop is over, wg.Wait
CompileModules_LoopEnd ==
    /\ bld_pc = "loop"
    /\ visited = DOMAIN modFiles
    /\ bld_pc' = "wait"
    /\ UNCHANGED <<modFiles, modFiles0, jobs, visited, task, taskFile, sem, invoked, errCount>>
    /\ UNCHANGED notBld

\* build.go:200-208: wg.Wait returns when every task is done
CompileModules_Return ==
    /\ bld_pc = "wait"
    /\ \A m \in DOMAIN modFiles : task[m] \in {"none", "done"}
    /\ bld_pc' = "done"
    /\ UNCHANGED <<modFiles, modFiles0, jobs, visited, task, taskFile, sem, invoked, errCount>>
    /\ UNCHANGED notBld

BldNext ==
    \/ CompileModules_Skip
    \/ CompileModules_Go
    \/ CompileModule_Gcc
    \/ CompileModules_Release
    \/ CompileModules_LoopEnd
    \/ CompileModules_Return

BldInit == BldStart /\ CycIdle /\ LmIdle /\ TrIdle /\ CgIdle /\ CmpIdle /\ BtIdle /\ LspIdle /\ PxIdle /\ RnIdle /\ LcIdle /\ LkIdle /\ DgIdle /\ QnIdle /\ PtIdle

SpecBuild == BldInit /\ [][BldNext]_vars

Running == {m \in DOMAIN task : task[m] = "running"}

\* C12: at every moment of a build the number of compile tasks that are
\* running is at most Jobs.
C12_AtMostJobsRunning == Cardinality(Running) <= jobs

\* Jobs tasks are running and the loop holds a further stale module back
C12_Witness ==
    /\ jobs = 1
    /\ Cardinality(Running) = 1
    /\ bld_pc = "loop"
    /\ \E m \in DOMAIN modFiles \ visited : needsRecompile(modFiles[m])

\* C20: when the build has compiled without a compiler failure, gcc was
\* invoked for a C file if and only if its object file was missing or older
\* than the C file when the build started; a fresh object file of a module
\* with a stale file was not rebuilt.
C20_OnlyStaleFilesCompiled ==
    (bld_pc = "done" /\ errCount = 0)
    => \A m \in DOMAIN modFiles0 : \A i \in 1..Len(modFiles0[m]) :
          (<<m, i>> \in invoked) <=> (modFiles0[m][i] # "fresh")

\* The Go scheduler runs every goroutine that can take a step, and gcc
\* returns: each step of the build that stays possible is taken.
SpecBuildFair ==
    /\ BldInit /\ [][BldNext]_vars
    /\ WF_vars(CompileModules_Skip) /\ WF_vars(CompileModules_Go)
    /\ WF_vars(CompileModule_Gcc) /\ WF_vars(CompileModules_Release)
    /\ WF_vars(CompileModules_LoopEnd) /\ WF_vars(CompileModules_Return)

\* C23: for every Jobs value the command line accepts, 0 included, and every
\* number of modules the compile phase comes to its end: the dispatch loop
\* does not wait forever at the semaphore and wg.Wait returns.
C23_CompilePhaseTerminates == <>(bld_pc = "done")

(***************************************************************************)
(* Component J: clangd proxy (internal/lsp/clangd.go:82-160)               *)
(***************************************************************************)
\* The raw id of a message: a JSON number or a JSON string holding the
\* digits, possibly with white space around it.
RawIDs == [num : 1..(MaxCalls + 1), quoted : BOOLEAN, padded : BOOLEAN]

\* jsonrpc.go:107-109: the raw id without the white space around it
jsonrpcIDKey(raw) == [num |-> raw.num, quoted |-> raw.quoted]

\* clangd.go:131 and 134: fmt.Sprintf("%d", id), as pending key and as raw id
FormatID(id) == [num |-> id, quoted |-> FALSE]
RawOfID(id) == [num |-> id, quoted |-> FALSE, padded |-> FALSE]

\* clangd.go:128-129: id := p.nextID; p.nextID++
nextIDReused(id) == id
nextIDAfter(id) == id + 1

NoRead == [read |-> FALSE, id |-> RawOfID(1), to |-> 0, hadPending |-> FALSE]

\* clangd.go:29-36
PxStart ==
    /\ nextID = 1
    /\ pending = <<>>
    /\ pxCall = [c \in 1..MaxCalls |-> [state |-> "idle", id |-> 0]]
    /\ pxChan = [c \in 1..MaxCalls |-> <<>>]
    /\ pxGot = [c \in 1..MaxCalls |-> <<>>]
    /\ pxWire = <<>>
    /\ pxSent = 0
    /\ pxLast = NoRead

\* clangd.go:127-143: a call takes an id, registers its channel under the
\* id's key and writes the request; when the write fails the call returns
\* the error
Request_Send ==
    /\ \E c \in 1..MaxCalls, written \in BOOLEAN :
          /\ pxCall[c].state = "idle"
          /\ pxCall' = [pxCall EXCEPT ![c] = [state |-> IF written THEN "waiting" ELSE "writeError",
                                              id |-> nextID]]
          /\ pending' = MapPut(pending, FormatID(nextID), c)
          /\ nextID' = nextIDAfter(nextID)
    /\ pxLast' = NoRead
    /\ UNCHANGED <<pxChan, pxGot, pxWire, pxSent>>
    /\ UNCHANGED notPx

\* clangd writes a response with some id
Clangd_Respond ==
    /\ pxSent < MaxResponses
    /\ \E raw \in RawIDs : pxWire' = Append(pxWire, raw)
    /\ pxSent' = pxSent + 1
    /\ pxLast' = NoRead
    /\ UNCHANGED <<nextID, pending, pxCall, pxChan, pxGot>>
    /\ UNCHANGED notPx

\* clangd.go:85-111: the read loop reads a message with an id and no
\* method, takes the channel registered under the id's key out of pending
\* and sends the message on it
ReadLoop_Response ==
    /\ pxWire # <<>>
    /\ LET raw == Head(pxWire)
           key == jsonrpcIDKey(raw)
           had == key \in DOMAIN pending
       IN /\ pending' = MapDelete(pending, key)
          /\ pxChan' = IF had THEN [pxChan EXCEPT ![pending[key]] = Append(@, raw)]
                       ELSE pxChan
          /\ pxLast' = [read |-> TRUE, id |-> raw,
                        to |-> IF had THEN pending[key] ELSE 0, hadPending |-> had]
    /\ pxWire' = Tail(pxWire)
    /\ UNCHANGED <<nextID, pxCall, pxGot, pxSent>>
    /\ UNCHANGED notPx

\* clangd.go:145-153: the call receives the response from its channel
Request_Receive ==
    /\ \E c \in 1..MaxCalls :
          /\ pxCall[c].state = "waiting"
          /\ pxChan[c] # <<>>
          /\ pxGot' = [pxGot EXCEPT ![c] = Append(@, Head(pxChan[c]))]
          /\ pxChan' = [pxChan EXCEPT ![c] = Tail(@)]
          /\ pxCall' = [pxCall EXCEPT ![c].state = "done"]
    /\ pxLast' = NoRead
    /\ UNCHANGED <<nextID, pending, pxWire, pxSent>>
    /\ UNCHANGED notPx

\* clangd.go:154-158: the context is done or ten seconds have passed; the
\* entry in pending stays
Request_Timeout ==
    /\ \E c \in 1..MaxCalls :
          /\ pxCall[c].state = "waiting"
          /\ pxCall' = [pxCall EXCEPT ![c].state = "timeout"]
    /\ pxLast' = NoRead
    /\ UNCHANGED <<nextID, pending, pxChan, pxGot, pxWire, pxSent>>
    /\ UNCHANGED notPx

PxNext ==
    \/ Request_Send
    \/ Clangd_Respond
    \/ ReadLoop_Response
    \/ Request_Receive
    \/ Request_Timeout

PxInit == PxStart /\ CycIdle /\ LmIdle /\ TrIdle /\ CgIdle /\ CmpIdle /\ BtIdle /\ BldIdle /\ LspIdle /\ RnIdle /\ LcIdle /\ LkIdle /\ DgIdle /\ QnIdle /\ PtIdle

SpecClangdProxy == PxInit /\ [][PxNext]_vars

\* the canonical string form of a raw id: the JSON text of the id, which
\* tells the number 1 from the string "1"
CanonicalForm(raw) == <<raw.quoted, raw.num>>
Issued == {c \in 1..MaxCalls : pxCall[c].state # "idle"}

\* C14: a response the read loop reads goes to the pending call whose id has
\* the same canonical string form and to no other call; a call gets at most
\* one response; the ids of the issued calls are pairwise distinct.
C14_ResponseDemultiplexing ==
    /\ pxLast.read =>
          /\ pxLast.hadPending <=> pxLast.to # 0
          /\ pxLast.to # 0 =>
                CanonicalForm(pxLast.id) = CanonicalForm(RawOfID(pxCall[pxLast.to].id))
    /\ \A c \in 1..MaxCalls :
          /\ Len(pxChan[c]) + Len(pxGot[c]) <= 1
          /\ \A i \in 1..Len(pxChan[c]) :
                CanonicalForm(pxChan[c][i]) = CanonicalForm(RawOfID(pxCall[c].id))
          /\ \A i \in 1..Len(pxGot[c]) :
                CanonicalForm(pxGot[c][i]) = CanonicalForm(RawOfID(pxCall[c].id))
    /\ \A c, d \in Issued : c # d => pxCall[c].id # pxCall[d].id

\* two calls are issued, one has received its response, and the read loop
\* has just dropped a response that carries the same digits as a string
C14_Witness ==
    /\ Cardinality(Issued) = 2
    /\ \E c \in Issued : pxCall[c].state = "done"
    /\ pxLast.read /\ pxLast.to = 0 /\ pxLast.id.quoted

\* the calls of request that have returned, and those still in flight
Returned == {c \in 1..MaxCalls : pxCall[c].state \in {"done", "timeout", "writeError"}}
InFlight == {c \in 1..MaxCalls : pxCall[c].state = "waiting"}

\* C25: once a request call has returned (result, clangd error, timeout,
\* cancelled context or write failure) pending holds no entry under its id,
\* and pending is never larger than the number of calls in flight.
C25_PendingReleased ==
    /\ \A c \in Returned : FormatID(pxCall[c].id) \notin DOMAIN pending
    /\ Cardinality(DOMAIN pending) <= Cardinality(InFlight)

(***************************************************************************)
(* Component K: rename and prepareRename (internal/lsp/module_index.go,    *)
(* prepare_rename.go, symbols.go:298-393)                                  *)
(***************************************************************************)
\* symbols.go:304-317: the offset of (line0, char0), counted over the lines
\* splitLinesPreserve returns
RECURSIVE lineOffset(_, _)
lineOffset(lines, line0) ==
    IF line0 = 0 THEN 0 ELSE lineOffset(lines, line0 - 1) + Len(lines[line0]) + 1

clampChar(line, char0) ==
    IF char0 < 0 THEN 0 ELSE IF char0 > Len(line) THEN Len(line) ELSE char0

\* symbols.go:319-390: the scan over src[0 .. off), st is the lexical state
\* ("code", "line", "block", "string", "char"); i is 0-based
RECURSIVE scanLexical(_, _, _, _, _)
scanLexical(src, i, off, st, escaped) ==
    IF ~(i < Len(src) /\ i < off) THEN st
    ELSE LET c == src[i + 1]
             hasNext == i + 1 < Len(src)
         IN CASE st = "line" ->
                   scanLexical(src, i + 1, off, IF c = "\n" THEN "code" ELSE "line", escaped)
              [] st = "block" ->
                   IF c = "*" /\ hasNext /\ src[i + 2] = "/"
                   THEN scanLexical(src, i + 2, off, "code", escaped)
                   ELSE scanLexical(src, i + 1, off, "block", escaped)
              [] st \in {"string", "char"} ->
                   IF escaped THEN scanLexical(src, i + 1, off, st, FALSE)
                   ELSE IF c = "\\" THEN scanLexical(src, i + 1, off, st, TRUE)
                   ELSE IF c = (IF st = "string" THEN "\"" ELSE "'")
                   THEN scanLexical(src, i + 1, off, "code", escaped)
                   ELSE scanLexical(src, i + 1, off, st, escaped)
              [] OTHER ->
                   IF c = "/" /\ hasNext /\ src[i + 2] = "/"
                   THEN scanLexical(src, i + 2, off, "line", escaped)
                   ELSE IF c = "/" /\ hasNext /\ src[i + 2] = "*"
                   THEN scanLexical(src, i + 2, off, "block", escaped)
                   ELSE IF c = "\"" THEN scanLexical(src, i + 1, off, "string", escaped)
                   ELSE IF c = "'" THEN scanLexical(src, i + 1, off, "char", escaped)
                   ELSE scanLexical(src, i + 1, off, "code", escaped)

\* symbols.go:298-393
isInStringOrComment(src, line0, char0) ==
    LET lines == splitLinesPreserve(src) IN
    IF line0 < 0 \/ line0 >= Len(lines) THEN FALSE
    ELSE LET off == lineOffset(lines, line0) + clampChar(lines[line0 + 1], char0)
         IN scanLexical(src, 0, off, "code", FALSE) # "code"

\* the largest run of identifier bytes that ends before 0-based index e
identLeft(line, e) ==
    LET ss == {s \in 0..e : \A j \in (s + 1)..e : isIdentChar(line[j])}
    IN CHOOSE s \in ss : \A t \in ss : s <= t

\* the largest run of identifier bytes that starts at 0-based index b
identRight(line, b) ==
    LET es == {e \in b..Len(line) : \A j \in (b + 1)..e : isIdentChar(line[j])}
    IN CHOOSE e \in es : \A t \in es : t <= e

\* module_index.go:404-434
identifierAt(line, char0) ==
    LET start0 == IF char0 > 0 /\ char0 = Len(line) THEN Len(line) - 1 ELSE char0
        start == identLeft(line, start0)
        end == identRight(line, char0)
    IN IF end <= start THEN [ident |-> <<>>, qualifier |-> <<>>]
       ELSE [ident |-> SubSeq(line, start + 1, end),
             qualifier |->
                 IF start > 0 /\ line[start] = "."
                 THEN SubSeq(line, identLeft(line, start - 1) + 1, start - 1)
                 ELSE <<>>]

\* module_index.go:191-206: the first standalone occurrence, 0-based, or -1
indexOfIdentifier(line, ident) ==
    IF ident = <<>> THEN -1
    ELSE LET hits == {i \in 0..(Len(line) - Len(ident)) :
                         /\ SubSeq(line, i + 1, i + Len(ident)) = ident
                         /\ (i = 0 \/ ~isIdentChar(line[i]))
                         /\ (i + Len(ident) = Len(line) \/ ~isIdentChar(line[i + Len(ident) + 1]))}
         IN IF hits = {} THEN -1 ELSE CHOOSE i \in hits : \A j \in hits : i <= j

Edit(line0, start, end, newText) ==
    [line |-> line0, start |-> start, end |-> end, newText |-> newText]

\* module_index.go:446-488: the edits of one line, searching from pos
RECURSIVE lineEdits(_, _, _, _, _, _)
lineEdits(text, line, line0, needle, repl, pos) ==
    LET idx == indexOfSubstring(SubSeq(line, pos + 1, Len(line)), needle) IN
    IF idx < 0 THEN <<>>
    ELSE LET abs == pos + idx
             afterIdx == abs + Len(needle)
             beforeOK == abs = 0 \/ ~isIdentChar(line[abs])
             afterOK == afterIdx >= Len(line) \/ ~isIdentChar(line[afterIdx + 1])
             here == IF beforeOK /\ afterOK /\ ~isInStringOrComment(text, line0, abs)
                     THEN <<Edit(line0, abs, afterIdx, repl)>> ELSE <<>>
         IN IF afterIdx >= Len(line) THEN here
            ELSE here \o lineEdits(text, line, line0, needle, repl, afterIdx)

RECURSIVE editsFromLine(_, _, _, _, _)
editsFromLine(text, lines, line0, needle, repl) ==
    IF line0 >= Len(lines) THEN <<>>
    ELSE lineEdits(text, lines[line0 + 1], line0, needle, repl, 0)
         \o editsFromLine(text, lines, line0 + 1, needle, repl)

\* module_index.go:436-492
findRenameEdits(text, oldName, newName, qualified, module) ==
    editsFromLine(text, splitLinesPreserve(text), 0,
                  IF qualified THEN module \o <<".">> \o oldName ELSE oldName,
                  IF qualified THEN module \o <<".">> \o newName ELSE newName)

\* module_index.go:256-261: the bytes the loop over newName lets pass
UpperLetters == {"E"}
LowerLetters == (Letters \ UpperLetters) \cup {"m", "n", "i", "p", "o", "r", "t", "d", "l", "e", "c"}
newNameByteOK(b, i) ==
    isIdentChar(b) \/ (i = 0 /\ b \in UpperLetters) \/ b \in LowerLetters \/ b = "_"

\* The file: identifiers x and ax, white space, line ends with and without
\* carriage return, and the literals and comments of C around an x.
RnPiece(kind, text) == [kind |-> kind, text |-> text]
RnPieceSet ==
    {RnPiece("ident", <<"x">>), RnPiece("ident", <<"a", "x">>), RnPiece("space", <<" ">>),
     RnPiece("dot", <<".">>), RnPiece("newline", <<"\n">>), RnPiece("newline", <<"\r", "\n">>),
     RnPiece("string", <<"\"", "x", "\"">>), RnPiece("char", <<"'", "x", "'">>),
     RnPiece("linecomment", <<"/", "/", "x", "\n">>),
     RnPiece("blockcomment", <<"/", "*", "x", "*", "/">>)}
RnFiles == UNION {[1..n -> RnPieceSet] : n \in 1..MaxRnPieces}
NewNames == {<<>>, <<"a">>, <<"1", "a">>, <<"a", "1">>, <<"a", ".">>}

\* the modules of the workspace: the file is the only file of module s
RnModules == {<<"s">>}

RECURSIVE PieceTexts(_)
PieceTexts(ps) == IF ps = <<>> THEN <<>> ELSE Head(ps).text \o PieceTexts(Tail(ps))

RnStart ==
    /\ rnPieces \in RnFiles
    /\ rnText = PieceTexts(rnPieces)
    /\ rnPos \in (0..MaxRnLine) \X (0..MaxRnChar)
    /\ rnNew \in NewNames
    /\ rnReply = [kind |-> "none"]
    /\ rn_pc = "start"

RnError(code) == [kind |-> "error", code |-> code]

\* module_index.go:239-402
Rename ==
    /\ rn_pc = "start"
    /\ rn_pc' = "renamed"
    /\ LET lines == splitLinesPreserve(rnText)
           line0 == rnPos[1]
           line == lines[line0 + 1]
           char0 == clampChar(line, rnPos[2])
           at == identifierAt(line, char0)
           target == IF at.qualifier # <<>> THEN at.qualifier ELSE <<"s">>
       IN rnReply' =
             IF rnNew = <<>> THEN RnError("-32602")
             ELSE IF \E i \in 1..Len(rnNew) : ~newNameByteOK(rnNew[i], i - 1) THEN RnError("-32602")
             ELSE IF line0 >= Len(lines) THEN RnError("-32602")
             ELSE IF isInStringOrComment(rnText, line0, char0) THEN RnError("-32602")
             ELSE IF at.ident = <<>> THEN RnError("-32602")
             ELSE IF target \notin RnModules THEN [kind |-> "panic"]
             ELSE [kind |-> "edits", old |-> at.ident,
                   edits |-> findRenameEdits(rnText, at.ident, rnNew, FALSE, <<>>)]
    /\ UNCHANGED <<rnPieces, rnText, rnPos, rnNew>>
    /\ UNCHANGED notRn

\* prepare_rename.go:11-83
PrepareRename ==
    /\ rn_pc = "start"
    /\ rn_pc' = "prepared"
    /\ LET lines == splitLinesPreserve(rnText)
           line0 == rnPos[1]
           line == lines[line0 + 1]
           char0 == clampChar(line, rnPos[2])
           ident == identifierAt(line, char0).ident
           found == indexOfIdentifier(line, ident)
           start == IF found < 0 THEN char0 ELSE found
       IN rnReply' =
             IF line0 >= Len(lines) THEN RnError("-32602")
             ELSE IF isInStringOrComment(rnText, line0, char0) THEN [kind |-> "null"]
             ELSE IF ident = <<>> THEN [kind |-> "null"]
             ELSE [kind |-> "range", line |-> line0, start |-> start,
                   end |-> start + Len(ident), placeholder |-> ident, char |-> char0]
    /\ UNCHANGED <<rnPieces, rnText, rnPos, rnNew>>
    /\ UNCHANGED notRn

RnNext == Rename \/ PrepareRename

RnInit == RnStart /\ CycIdle /\ LmIdle /\ TrIdle /\ CgIdle /\ CmpIdle /\ BtIdle /\ BldIdle /\ PxIdle /\ LspIdle /\ LcIdle /\ LkIdle /\ DgIdle /\ QnIdle /\ PtIdle

SpecRename == RnInit /\ [][RnNext]_vars

\* the offset in the file of the first byte of 0-based line k
RECURSIVE TrueLineStart(_, _, _)
TrueLineStart(text, k, from) ==
    IF k = 0 THEN from
    ELSE LET nls == {i \in (from + 1)..Len(text) : text[i] = "\n"}
         IN TrueLineStart(text, k - 1, CHOOSE i \in nls : \A j \in nls : i <= j)

\* the kind of the lexical element that holds the byte at offset off
RECURSIVE PieceKindAt(_, _)
PieceKindAt(ps, off) ==
    IF off < Len(Head(ps).text) THEN Head(ps).kind
    ELSE PieceKindAt(Tail(ps), off - Len(Head(ps).text))

\* the edit replaces a standalone identifier occurrence of old
StandaloneOccurrence(e, old) ==
    LET off == TrueLineStart(rnText, e.line, 0) + e.start
        n == e.end - e.start
    IN /\ n = Len(old)
       /\ off + n <= Len(rnText)
       /\ SubSeq(rnText, off + 1, off + n) = old
       /\ \A i \in 1..n : isIdentChar(old[i])
       /\ off = 0 \/ ~isIdentChar(rnText[off])
       /\ off + n = Len(rnText) \/ ~isIdentChar(rnText[off + n + 1])

OutsideLiteralsAndComments(e) ==
    PieceKindAt(rnPieces, TrueLineStart(rnText, e.line, 0) + e.start)
        \notin {"string", "char", "linecomment", "blockcomment"}

\* C15: every text edit rename returns replaces a standalone occurrence of
\* the old identifier that lies outside every comment, string literal and
\* character literal of the file.
C15_RenameEditsOnlyCode ==
    (rn_pc = "renamed" /\ rnReply.kind = "edits")
    => \A k \in 1..Len(rnReply.edits) :
          /\ StandaloneOccurrence(rnReply.edits[k], rnReply.old)
          /\ OutsideLiteralsAndComments(rnReply.edits[k])

\* first byte a letter or _, every further byte a letter, a digit or _
ValidIdentifier(name) ==
    /\ name # <<>>
    /\ name[1] \in UpperLetters \cup LowerLetters \cup {"_"}
    /\ \A i \in 2..Len(name) : name[i] \in UpperLetters \cup LowerLetters \cup Digits \cup {"_"}

\* C16: rename answers a newName that is not a valid identifier with an
\* error response instead of edits.
C16_NewNameValidated ==
    (rn_pc = "renamed" /\ ~ValidIdentifier(rnNew)) => rnReply.kind = "error"

\* C17: when prepareRename answers a range, the range is the span of the
\* identifier occurrence under the request position (it contains the
\* position) and the placeholder is the text of that span.
C17_PrepareRenameRange ==
    (rn_pc = "prepared" /\ rnReply.kind = "range")
    => LET line == splitLinesPreserve(rnText)[rnReply.line + 1]
       IN /\ rnReply.start <= rnReply.char /\ rnReply.char <= rnReply.end
          /\ rnReply.end <= Len(line)
          /\ rnReply.placeholder = SubSeq(line, rnReply.start + 1, rnReply.end)

\* the qualifier q of the identifier under the request position, written q.name
QualifierAtPosition ==
    LET lines == splitLinesPreserve(rnText)
        line == lines[rnPos[1] + 1]
    IN IF rnPos[1] >= Len(lines) THEN <<>>
       ELSE identifierAt(line, clampChar(line, rnPos[2])).qualifier

\* C29: a rename on an identifier written after q. where q is not the
\* import path of a module of the project is answered with an error or a
\* WorkspaceEdit, and the server goes on serving.
C29_RenameUnknownQualifierAnswered ==
    (rn_pc = "renamed" /\ QualifierAtPosition # <<>> /\ QualifierAtPosition \notin RnModules)
    => rnReply.kind \in {"error", "edits"}

(***************************************************************************)
(* Component L: clangd process lifecycle (internal/lsp/linemap.go:195-256, *)
(* clangd.go:29-80)                                                        *)
(***************************************************************************)
\* a clangdProxy: cmd is "nil" or "set"; proc is the child process, "none"
\* (never started), "running" or "dead"; loop is the readLoop goroutine,
\* "none", "running" or "done"
Proxy(cmd, proc, loop) == [cmd |-> cmd, proc |-> proc, loop |-> loop]

\* clangd.go:38-70, start on a new proxy: cmd is set before cmd.Start(), the
\* read loop is started only after cmd.Start() succeeded
startedProxy(startOk) ==
    IF startOk THEN Proxy("set", "running", "running") ELSE Proxy("set", "none", "none")

\* clangd.go:72-80, stop: nothing without cmd; else kill, wait for the read
\* loop, clear cmd
stoppedProxy(p) == IF p.cmd = "nil" THEN p ELSE Proxy("nil", "dead", "done")

LcStart ==
    /\ lcProxies = <<>>
    /\ lcCur = 0
    /\ lcServe = "loop"

\* linemap.go:199-249: the initialize request
Initialize_StartClangd ==
    /\ lcServe = "loop"
    /\ Len(lcProxies) < MaxProxies
    /\ \E outcome \in {"malformed", "startFails", "initializeFails", "ok"} :
          IF outcome = "malformed"
          THEN UNCHANGED <<lcProxies, lcCur>>
          ELSE /\ lcProxies' = Append(lcProxies, startedProxy(outcome # "startFails"))
               /\ lcCur' = Len(lcProxies) + 1
    /\ UNCHANGED lcServe
    /\ UNCHANGED notLc

\* linemap.go:251-256: the shutdown request; notify on a proxy whose start
\* failed dereferences the nil conn
Shutdown_StopClangd ==
    /\ lcServe = "loop"
    /\ IF lcCur = 0
       THEN UNCHANGED <<lcProxies, lcServe>>
       ELSE IF lcProxies[lcCur].proc = "none"
       THEN lcServe' = "panic" /\ UNCHANGED lcProxies
       ELSE /\ lcProxies' = [lcProxies EXCEPT ![lcCur] = stoppedProxy(@)]
            /\ UNCHANGED lcServe
    /\ UNCHANGED lcCur
    /\ UNCHANGED notLc

\* the child process ends on its own
Clangd_Exits ==
    /\ \E i \in 1..Len(lcProxies) :
          /\ lcProxies[i].proc = "running"
          /\ lcProxies' = [lcProxies EXCEPT ![i].proc = "dead"]
    /\ UNCHANGED <<lcCur, lcServe>>
    /\ UNCHANGED notLc

\* clangd.go:85-89: readMessage fails on the closed pipe, readLoop returns
ReadLoop_Return ==
    /\ \E i \in 1..Len(lcProxies) :
          /\ lcProxies[i].proc = "dead" /\ lcProxies[i].loop = "running"
          /\ lcProxies' = [lcProxies EXCEPT ![i].loop = "done"]
    /\ UNCHANGED <<lcCur, lcServe>>
    /\ UNCHANGED notLc

\* linemap.go:282-283 and 168-173: exit, or the end of the input
Serve_Return ==
    /\ lcServe = "loop"
    /\ lcServe' = "done"
    /\ UNCHANGED <<lcProxies, lcCur>>
    /\ UNCHANGED notLc

LcNext ==
    \/ Initialize_StartClangd
    \/ Shutdown_StopClangd
    \/ Clangd_Exits
    \/ ReadLoop_Return
    \/ Serve_Return

LcInit == LcStart /\ CycIdle /\ LmIdle /\ TrIdle /\ CgIdle /\ CmpIdle /\ BtIdle /\ BldIdle /\ PxIdle /\ RnIdle /\ LspIdle /\ LkIdle /\ DgIdle /\ QnIdle /\ PtIdle

SpecClangdLifecycle == LcInit /\ [][LcNext]_vars

RunningProcs == {i \in 1..Len(lcProxies) : lcProxies[i].proc = "running"}
RunningLoops == {i \in 1..Len(lcProxies) : lcProxies[i].loop = "running"}

\* C21: while the server serves, at most one clangd child process of the
\* server runs and at most one proxy read loop; no initialize, repeated or
\* not, leaves an earlier clangd running.
C21_OneClangd ==
    lcServe = "loop" => Cardinality(RunningProcs) <= 1 /\ Cardinality(RunningLoops) <= 1


(***************************************************************************)
(* Component M: link flags (internal/build/build.go:160-174)               *)
(***************************************************************************)
LdFlagNames == {"-la", "-lb"}
LdFiles == {"f1.c", "f2.c", "f3.c"}
LdFlagLists == UNION {[1..n -> LdFlagNames] : n \in 0..MaxLdFlags}

\* build.go:165-172, the inner loop: the flags of one file appended to
\* ldFlags unless seen
RECURSIVE appendUnseen(_, _)
appendUnseen(ldFlags, flags) ==
    IF flags = <<>> THEN ldFlags
    ELSE appendUnseen(IF Head(flags) \in Range(ldFlags) THEN ldFlags
                      ELSE Append(ldFlags, Head(flags)),
                      Tail(flags))

\* build.go:160-174 for one iteration order of the map fileFlags
RECURSIVE collectLDFlagsFrom(_, _, _)
collectLDFlagsFrom(fileFlags, order, ldFlags) ==
    IF order = <<>> THEN ldFlags
    ELSE collectLDFlagsFrom(fileFlags, Tail(order), appendUnseen(ldFlags, fileFlags[Head(order)]))

LkStart ==
    /\ \E fs \in SUBSET LdFiles :
          /\ Cardinality(fs) <= MaxLdFiles
          /\ ldFileFlags \in [fs -> LdFlagLists]
    /\ ldBuilds = <<>>
    /\ ld_pc = "build"

\* build.go:58 and 160-174: one build collects the flags; range over a map
\* visits the keys in an order the runtime chooses
CollectLDFlags ==
    /\ ld_pc = "build"
    /\ Len(ldBuilds) < MaxBuilds
    /\ \E order \in Perms(DOMAIN ldFileFlags) :
          ldBuilds' = Append(ldBuilds, collectLDFlagsFrom(ldFileFlags, order, <<>>))
    /\ UNCHANGED <<ldFileFlags, ld_pc>>
    /\ UNCHANGED notLk

LkNext ==
    \/ CollectLDFlags

LkInit == LkStart /\ CycIdle /\ LmIdle /\ TrIdle /\ CgIdle /\ CmpIdle /\ BtIdle /\ BldIdle /\ PxIdle /\ RnIdle /\ LcIdle /\ LspIdle /\ DgIdle /\ QnIdle /\ PtIdle

SpecLdFlags == LkInit /\ [][LkNext]_vars

AllLdFlags == UNION {Range(ldFileFlags[f]) : f \in DOMAIN ldFileFlags}

\* q holds every flag of the files exactly once
EachFlagOnce(q) ==
    /\ Range(q) = AllLdFlags
    /\ \A i, j \in 1..Len(q) : q[i] = q[j] => i = j

\* C22: the flags handed to the link command hold each distinct LDFLAGS flag
\* of the files exactly once, and every build of the same project yields them
\* in the same order.
C22_LdFlagsOnceSameOrder ==
    /\ \A b \in 1..Len(ldBuilds) : EachFlagOnce(ldBuilds[b])
    /\ \A b, c \in 1..Len(ldBuilds) : ldBuilds[b] = ldBuilds[c]


(***************************************************************************)
(* Component N: diagnostics of a refresh (internal/lsp/linemap.go:375-452, *)
(* 504-572; clangd.go:82-112)                                              *)
(***************************************************************************)
\* a publishDiagnostics for the .cm file: the empty one of refresh n, or the
\* mapped diagnostics clangd computed from the C text of refresh n
ClearMsg(n) == [kind |-> "clear", refresh |-> n]
DiagMsg(n) == [kind |-> "diagnostics", refresh |-> n]

DgStart ==
    /\ dgRefresh = 0
    /\ dg_pc = "idle"
    /\ dgInbox = <<>>
    /\ dgPipe = <<>>
    /\ dgClient = <<>>

\* linemap.go:416-436, the file is not yet open in clangd: didOpen is written
\* to clangd
RefreshFile_DidOpen ==
    /\ dg_pc = "idle"
    /\ dgRefresh = 0
    /\ dgRefresh' = 1
    /\ dgInbox' = Append(dgInbox, 1)
    /\ dg_pc' = "openSent"
    /\ UNCHANGED <<dgPipe, dgClient>>
    /\ UNCHANGED notDg

\* linemap.go:438-440: after didOpen the empty diagnostics are published
RefreshFile_ClearAfterOpen ==
    /\ dg_pc = "openSent"
    /\ dgClient' = Append(dgClient, ClearMsg(dgRefresh))
    /\ dg_pc' = "idle"
    /\ UNCHANGED <<dgRefresh, dgInbox, dgPipe>>
    /\ UNCHANGED notDg

\* linemap.go:416-421 and 443-444, the file is open in clangd: the empty
\* diagnostics are published first
RefreshFile_ClearBeforeChange ==
    /\ dg_pc = "idle"
    /\ dgRefresh > 0
    /\ dgRefresh < MaxRefreshes
    /\ dgRefresh' = dgRefresh + 1
    /\ dgClient' = Append(dgClient, ClearMsg(dgRefresh'))
    /\ dg_pc' = "cleared"
    /\ UNCHANGED <<dgInbox, dgPipe>>
    /\ UNCHANGED notDg

\* linemap.go:446-452: then didChange is written to clangd
RefreshFile_DidChange ==
    /\ dg_pc = "cleared"
    /\ dgInbox' = Append(dgInbox, dgRefresh)
    /\ dg_pc' = "idle"
    /\ UNCHANGED <<dgRefresh, dgPipe, dgClient>>
    /\ UNCHANGED notDg

\* clangd analyses the next text it received and publishes its diagnostics,
\* or finds nothing to report
Clangd_Publish ==
    /\ dgInbox # <<>>
    /\ dgInbox' = Tail(dgInbox)
    /\ \E reports \in BOOLEAN :
          dgPipe' = IF reports THEN Append(dgPipe, Head(dgInbox)) ELSE dgPipe
    /\ UNCHANGED <<dgRefresh, dg_pc, dgClient>>
    /\ UNCHANGED notDg

\* clangd.go:85-95 with linemap.go:504-572: the read loop goroutine reads the
\* notification and onClangdNotification writes the mapped diagnostics to
\* the client
ReadLoop_Notification ==
    /\ dgPipe # <<>>
    /\ dgPipe' = Tail(dgPipe)
    /\ dgClient' = Append(dgClient, DiagMsg(Head(dgPipe)))
    /\ UNCHANGED <<dgRefresh, dg_pc, dgInbox>>
    /\ UNCHANGED notDg

DgNext ==
    \/ RefreshFile_DidOpen
    \/ RefreshFile_ClearAfterOpen
    \/ RefreshFile_ClearBeforeChange
    \/ RefreshFile_DidChange
    \/ Clangd_Publish
    \/ ReadLoop_Notification

DgInit == DgStart /\ CycIdle /\ LmIdle /\ TrIdle /\ CgIdle /\ CmpIdle /\ BtIdle /\ BldIdle /\ PxIdle /\ RnIdle /\ LcIdle /\ LkIdle /\ LspIdle /\ QnIdle /\ PtIdle

SpecDiagnostics == DgInit /\ [][DgNext]_vars

\* C24: the client never receives the empty publishDiagnostics of a refresh
\* after the diagnostics clangd computed from the C text of that refresh.
C24_ClearBeforeDiagnostics ==
    \A i, j \in 1..Len(dgClient) :
        (dgClient[i].kind = "diagnostics" /\ dgClient[j].kind = "clear"
         /\ dgClient[i].refresh = dgClient[j].refresh)
        => j < i


(***************************************************************************)
(* Component Q: qualified references to public symbols                     *)
(* (internal/codegen/codegen.go:470-596, internal/transform/transform.go)  *)
(***************************************************************************)
\* transform.go:40-44: the last segment of the import path
getModulePrefix(modulePath) ==
    LET slashes == {i \in 1..Len(modulePath) : modulePath[i] = "/"}
    IN IF slashes = {} THEN modulePath
       ELSE SubSeq(modulePath, (CHOOSE i \in slashes : \A j \in slashes : j <= i) + 1,
                   Len(modulePath))

\* transform.go:16-36 for a file with the single import P
BuildImportMap(importPath) == (getModulePrefix(importPath) :> importPath)

\* strings.TrimRight(typeName, "*")
RECURSIVE TrimStars(_)
TrimStars(str) ==
    IF str # <<>> /\ str[Len(str)] = "*" THEN TrimStars(SubSeq(str, 1, Len(str) - 1)) ELSE str

\* codegen.go:528-551
Primitives == {<<"i", "n", "t">>, <<"v", "o", "i", "d">>, <<"c", "h", "a", "r">>}
TypeKeywords == {<<"s", "t", "r", "u", "c", "t", " ">>, <<"u", "n", "i", "o", "n", " ">>,
                 <<"e", "n", "u", "m", " ">>}

\* codegen.go:526-596
RECURSIVE mangleTypeInSignature(_, _)
mangleTypeInSignature(typeName, modName) ==
    IF typeName # <<>> /\ typeName[Len(typeName)] = "*"
    THEN LET baseType == TrimStars(typeName) IN
         mangleTypeInSignature(baseType, modName)
             \o SubSeq(typeName, Len(baseType) + 1, Len(typeName))
    ELSE IF \E kw \in TypeKeywords : HasPrefix(typeName, kw) THEN typeName
    ELSE IF Fields(typeName) = <<>> THEN typeName
    ELSE IF Fields(typeName)[1] \in Primitives THEN typeName
    ELSE IF indexOfSubstring(typeName, <<".">>) >= 0
    THEN LET dot == indexOfSubstring(typeName, <<".">>) IN
         SubSeq(typeName, 1, dot) \o <<"_">> \o SubSeq(typeName, dot + 2, Len(typeName))
    ELSE modName \o <<"_">> \o typeName

\* import paths of one to MaxSegments segments
RECURSIVE JoinSlash(_)
JoinSlash(segs) ==
    IF Len(segs) = 1 THEN segs[1] ELSE segs[1] \o <<"/">> \o JoinSlash(Tail(segs))
QnSegments == {<<"a">>, <<"u">>}
QnPaths == {JoinSlash(segs) : segs \in UNION {[1..n -> QnSegments] : n \in 1..MaxSegments}}
QnSyms == {<<"x">>, <<"E">>, <<"h">>, <<"x", "a">>}
Stars(n) == [i \in 1..n |-> "*"]
QnRefs == {<<"body">>} \cup {<<"signature", Stars(n)>> : n \in 0..MaxStars}

\* the module that refers to the symbol
QnUser == <<"s">>

QnStart ==
    /\ qnPath \in QnPaths
    /\ qnSym \in QnSyms
    /\ qnRef \in QnRefs
    /\ qnOut = <<>>
    /\ qn_pc = "start"

\* codegen.go:639-653: the reference p.s in a function body of the user
TransformQualifiedReference ==
    /\ qn_pc = "start"
    /\ qnRef[1] = "body"
    /\ LET text == getModulePrefix(qnPath) \o <<".">> \o qnSym
           maps == [EmptyMaps EXCEPT !.importMap = BuildImportMap(qnPath)]
       IN qnOut' = ResultString(transformFrom(tokenize(text), 1, maps, <<>>))
    /\ qn_pc' = "done"
    /\ UNCHANGED <<qnPath, qnSym, qnRef>>
    /\ UNCHANGED notQn

\* codegen.go:470-521: the type p.s, with its pointer stars, as return or
\* parameter type of a function of the user
GenerateFunctionSignature_Type ==
    /\ qn_pc = "start"
    /\ qnRef[1] = "signature"
    /\ qnOut' = mangleTypeInSignature(getModulePrefix(qnPath) \o <<".">> \o qnSym \o qnRef[2],
                                      SanitizeModuleName(QnUser))
    /\ qn_pc' = "done"
    /\ UNCHANGED <<qnPath, qnSym, qnRef>>
    /\ UNCHANGED notQn

QnNext ==
    \/ TransformQualifiedReference
    \/ GenerateFunctionSignature_Type

QnInit == QnStart /\ CycIdle /\ LmIdle /\ TrIdle /\ CgIdle /\ CmpIdle /\ BtIdle /\ BldIdle /\ PxIdle /\ RnIdle /\ LcIdle /\ LkIdle /\ DgIdle /\ LspIdle /\ PtIdle

SpecQualified == QnInit /\ [][QnNext]_vars

\* codegen.go:223-299 and 599-636: the C name under which the public header
\* of the module with import path P declares its symbol s
declaredName(importPath, sym) == SanitizeModuleName(importPath) \o <<"_">> \o sym

\* C27: a qualified reference to the public symbol s of the module with
\* import path P, in a function body or as a type of a function signature
\* of another module, is emitted as sanitize(P)_s, the name the public header
\* of P declares (followed by the pointer stars of the type).
C27_QualifiedNameIsDeclaredName ==
    qn_pc = "done" =>
        qnOut = declaredName(qnPath, qnSym) \o (IF qnRef[1] = "signature" THEN qnRef[2] ELSE <<>>)


(***************************************************************************)
(* Component R: generated file paths (internal/paths/paths.go)             *)
(***************************************************************************)
CmExt == <<".", "c", "m">>
PtBuildDir == <<".", "c", "_", "m", "i", "n", "u", "s">>

\* filepath.Join(buildDir, name) for a name without separators to clean
JoinPath(dir, name) == dir \o <<"/">> \o name

\* strings.HasSuffix
HasSuffix(str, suffix) ==
    Len(str) >= Len(suffix) /\ SubSeq(str, Len(str) - Len(suffix) + 1, Len(str)) = suffix

\* paths.go:16-18
ModuleHeaderPath(buildDir, importPath) ==
    JoinPath(buildDir, SanitizeModuleName(importPath) \o <<".", "h">>)

\* paths.go:21-23
ModuleInternalHeaderPath(buildDir, importPath) ==
    JoinPath(buildDir, SanitizeModuleName(importPath)
                       \o <<"_", "i", "n", "t", "e", "r", "n", "a", "l", ".", "h">>)

\* paths.go:26-33
ModuleCFilePath(buildDir, importPath, cmFileName) ==
    LET name == IF HasSuffix(cmFileName, CmExt)
                THEN SubSeq(cmFileName, 1, Len(cmFileName) - 3) ELSE cmFileName
    IN JoinPath(buildDir, SanitizeModuleName(importPath) \o <<"_">> \o name \o <<".", "c">>)

\* paths.go:36-39
ModuleOFilePath(buildDir, importPath, cmFileName) ==
    LET cPath == ModuleCFilePath(buildDir, importPath, cmFileName)
    IN SubSeq(cPath, 1, Len(cPath) - 2) \o <<".", "o">>

\* import paths are directories below the project root; base names are the
\* names of .cm files
PtImportPaths == {<<"a">>, <<"b">>, <<"a", "/", "b">>, <<"a", "_", "b">>}
PtBaseNames == {<<"b">> \o CmExt, <<"c">> \o CmExt, <<"b", "_", "c">> \o CmExt}
PtSources == [path : PtImportPaths, base : PtBaseNames]

PtStart ==
    /\ ptFiles \in [1..2 -> PtSources]
    /\ ptPaths = <<>>
    /\ pt_pc = "start"

\* build.go:67-92 and codegen: the paths of the files generated for the two
\* source files
GeneratePaths ==
    /\ pt_pc = "start"
    /\ ptPaths' = [i \in 1..2 |->
            [c |-> ModuleCFilePath(PtBuildDir, ptFiles[i].path, ptFiles[i].base),
             o |-> ModuleOFilePath(PtBuildDir, ptFiles[i].path, ptFiles[i].base),
             h |-> ModuleHeaderPath(PtBuildDir, ptFiles[i].path),
             internal |-> ModuleInternalHeaderPath(PtBuildDir, ptFiles[i].path)]]
    /\ pt_pc' = "done"
    /\ UNCHANGED ptFiles
    /\ UNCHANGED notPt

PtNext ==
    \/ GeneratePaths

PtInit == PtStart /\ CycIdle /\ LmIdle /\ TrIdle /\ CgIdle /\ CmpIdle /\ BtIdle /\ BldIdle /\ PxIdle /\ RnIdle /\ LcIdle /\ LkIdle /\ DgIdle /\ QnIdle /\ LspIdle

SpecPaths == PtInit /\ [][PtNext]_vars

\* C28: two source files of a project with distinct (import path, base
\* name) pairs get distinct generated C and object file paths, and modules
\* with distinct import paths get distinct public and internal header paths.
C28_PathsInjective ==
    pt_pc = "done" =>
        /\ ptFiles[1] # ptFiles[2]
              => ptPaths[1].c # ptPaths[2].c /\ ptPaths[1].o # ptPaths[2].o
        /\ ptFiles[1].path # ptFiles[2].path
              => ptPaths[1].h # ptPaths[2].h /\ ptPaths[1].internal # ptPaths[2].internal

====
